---- MODULE Spec2Model ----
(***************************************************************************)
(* FishFlow reports: the Bayesian model-interpolation engine               *)
(* (fishflow/common/support.py), and the report assembler                  *)
(* (fishflow/depth/report.py), as state machines.                          *)
(*                                                                         *)
(* Numbers.  numpy's floating point values are modelled by exact rationals *)
(* <<n, d>> (d > 0, lowest terms).  A value in the log domain is modelled  *)
(* by the record [antilog |-> q] of the rational q it is the natural       *)
(* logarithm of (log(0) = -inf is [antilog |-> 0]): sums of logarithms     *)
(* multiply the antilogs, differences divide them, exp returns the antilog.*)
(***************************************************************************)
EXTENDS Integers, Sequences, FiniteSets, TLC

\* ------------------------------------------------------------------ bounds
\* the largest number of decisions N_D of a dataset
MaxDecisions == 2
\* the largest number of rows of a context passed to the indexer
MaxRows == 3

\* the cells of a scenario the page shows
MaxCells == 2

\* the values of a comma separated list of the URL
MaxTokens == 2

\* the cells whose minimums are built apart and merged
MaxParts == 3

\* the clicks of a visit of the page
MaxEvents == 3

\* the clicks of a visit of the page of the frontend
MaxClicks == 1

\* ------------------------------------------------------------ arithmetic
Abs(x) == IF x < 0 THEN -x ELSE x

RECURSIVE GCD(_, _)
GCD(a, b) == IF b = 0 THEN a ELSE GCD(b, a % b)

\* the rational n/d (d > 0) in lowest terms
Rat(n, d) == LET g == GCD(Abs(n), d) IN <<n \div g, d \div g>>

Zero == <<0, 1>>
One == <<1, 1>>

RatAdd(p, q) == Rat(p[1] * q[2] + q[1] * p[2], p[2] * q[2])
RatSub(p, q) == Rat(p[1] * q[2] - q[1] * p[2], p[2] * q[2])
RatMul(p, q) == Rat(p[1] * q[1], p[2] * q[2])
\* p / q for q > 0
RatDiv(p, q) == Rat(p[1] * q[2], p[2] * q[1])
RatLess(p, q) == p[1] * q[2] < q[1] * p[2]
RatLeq(p, q) == p[1] * q[2] <= q[1] * p[2]

\* np.sum of a vector of rationals
RECURSIVE RatSum(_)
RatSum(s) == IF s = <<>> THEN Zero ELSE RatAdd(Head(s), RatSum(Tail(s)))

\* np.max of a non-empty vector of rationals
RECURSIVE RatMax(_)
RatMax(s) ==
    IF Len(s) = 1 THEN s[1]
    ELSE LET m == RatMax(Tail(s)) IN IF RatLess(s[1], m) THEN m ELSE s[1]

\* ------------------------------------------------------------ log domain
\* np.log of a rational q >= 0
Log(q) == [antilog |-> q]
\* log(0)
NegInf == Log(Zero)
\* np.exp
Exp(l) == l.antilog
\* l1 + l2
LogPlus(l1, l2) ==
    IF l1 = NegInf \/ l2 = NegInf THEN NegInf
    ELSE [antilog |-> RatMul(l1.antilog, l2.antilog)]
\* l1 - l2, for l2 finite
LogMinus(l1, l2) ==
    IF l1 = NegInf THEN NegInf
    ELSE [antilog |-> RatDiv(l1.antilog, l2.antilog)]
\* np.sum of a vector of logarithms
RECURSIVE LogSum(_)
LogSum(s) == IF s = <<>> THEN Log(One) ELSE LogPlus(Head(s), LogSum(Tail(s)))
\* np.max of a non-empty vector of logarithms (log is increasing)
LogMax(s) == Log(RatMax([i \in 1..Len(s) |-> Exp(s[i])]))

\* ------------------------------------------------------------ state
VARIABLES
    pc,                      \* the function called, or the step of build_report
    error,                   \* the exception raised, or "None"
    epsilons,                \* E: the mixture weights
    model_df,                \* (_decision, _choice) -> probability
    reference_model_df,      \* (_decision, _choice) -> probability
    selections_df,           \* the (_decision, _choice) pairs observed
    reference_model_matrix,  \* G_B: N_D rows of N_C probabilities
    model_matrix,            \* G_H: N_D rows of N_C probabilities
    selection_matrix,        \* C: N_D rows of N_C entries 0 or 1
    prior_probs,             \* P(eps_i); <<>> is prior_probs=None (uniform)
    epsilon,                 \* the epsilon of a log_likelihood_member call
    log_likelihood,          \* what log_likelihood_member returned
    support,                 \* what prob_members returned; <<>> before
    mixtures_df,             \* (_decision, _choice, epsilon) -> probability
    meta_data,               \* the fields the metadata passed has
    context_df,              \* rows of _decision, _choice, datetime, h3_index,
                             \* depth_bin, in the order they were passed
    model_actuals_df,        \* the model over the actuals
    reference_model_actuals_df,  \* the reference model over the actuals
    selections_actuals_df,   \* the (_decision, _choice) pairs observed
    existing_dir,            \* {data_dir}/{scenario_id} when build_report began
    report_dir,              \* {data_dir}/{scenario_id} as a reader finds it
    cell_ids,                \* the h3 indices in cell_id order (cell_id 0 first)
    cell,                    \* the cell_id the loop of build_report is at
    timeline,                \* what build_timeline returned
    cell_depths,             \* cell_id -> deepest depth_bin
    occupancy_df,            \* what build_occupancy returned
    minimums,                \* what build_minimums returned; on the page,
                             \* the minimums loadGlobalData kept
    searchParams,            \* the query of the URL the page was opened at
    geometries,              \* the cell_id of each feature, in array order
    minimumsRaw,             \* the minimums the API served
    selectedMonths,          \* the months picked
    selectedHours,           \* the hours picked
    selectedCells,           \* the cells picked
    filtered_minimums,       \* cell_id -> the value the map colours it by
    timestamps,              \* the timestamps of the report, in order
    occupancy_data,          \* cell_id -> the occupancy loaded for the cell
    requests,                \* the occupancy requests that have no answer yet
    issued,                  \* how many occupancy requests have been sent
    loadError,               \* the message of the load that failed, or null
    isLoadingOccupancy,      \* whether the graph shows the spinner
    objects,                 \* the objects made for occupancy data, in order
    occupancyData,           \* which of the objects the frontend page holds
    occupancyError,          \* the message of its failed load, or null
    retried,                 \* the cell Retry was activated for, no request
                             \* for it sent and no answer had since, or null
    filtered_timestamps,     \* the timestamps of the selected months
    highlight_indices,       \* the positions of the selected hours in them
    url_timer,               \* the call the debounce holds back, or null
    globalLoads,             \* how many times the global data was loaded
    events,                  \* how many clicks and answers there have been
    partials                 \* the minimums of groups of cells, built apart
                             \* from each other and not yet merged

dfVars == <<model_df, reference_model_df, selections_df>>

matrixVars == <<reference_model_matrix, model_matrix, selection_matrix>>

callVars == <<prior_probs, epsilon, log_likelihood>>

reportInputs == <<meta_data, context_df, model_actuals_df,
                  reference_model_actuals_df, selections_actuals_df,
                  existing_dir>>

engineVars ==
    <<epsilons, dfVars, matrixVars, callVars, support, mixtures_df>>

derivedVars == <<timeline, cell_depths, occupancy_df, minimums>>

reportVars == <<reportInputs, report_dir, cell_ids, cell, derivedVars>>

sessionVars == <<timestamps, occupancy_data, requests, issued, loadError,
                 isLoadingOccupancy, objects, occupancyData, occupancyError,
                 retried, filtered_timestamps, highlight_indices, url_timer,
                 globalLoads, events>>

pageVars == <<searchParams, geometries, minimumsRaw, selectedMonths,
              selectedHours, selectedCells, filtered_minimums, sessionVars>>

vars == <<pc, error, epsilons, dfVars, matrixVars, callVars, support,
          mixtures_df, reportVars, pageVars, partials>>

\* a dataframe without rows
EmptyDf == <<>>

\* no dataframe has been passed
NoDataframes ==
    /\ model_df = EmptyDf
    /\ reference_model_df = EmptyDf
    /\ selections_df = {}

\* no matrix has been built or passed
NoMatrices ==
    /\ reference_model_matrix = <<>>
    /\ model_matrix = <<>>
    /\ selection_matrix = <<>>

\* log_likelihood_member has not been called
NoLikelihoodCall ==
    /\ prior_probs = <<>>
    /\ epsilon = <<0, 1>>
    /\ log_likelihood = [antilog |-> <<0, 1>>]

None == "None"

\* a directory that does not exist
NoDirectory == [exists |-> FALSE, files |-> {}]

\* nothing has been derived from a context or from mixtures
NoDerived ==
    /\ timeline = <<>>
    /\ cell_depths = <<>>
    /\ occupancy_df = <<>>
    /\ minimums = <<>>

\* a JavaScript null
null == [type |-> "null"]

\* the other copy of the page, of the frontend, is not open
NoFrontend ==
    /\ objects = <<>>
    /\ occupancyData = 0
    /\ occupancyError = null
    /\ retried = null

\* nobody has used a page
NoSession ==
    /\ timestamps = <<>>
    /\ occupancy_data = <<>>
    /\ requests = {}
    /\ issued = 0
    /\ loadError = null
    /\ isLoadingOccupancy = FALSE
    /\ NoFrontend
    /\ filtered_timestamps = <<>>
    /\ highlight_indices = <<>>
    /\ url_timer = null
    /\ globalLoads = 0
    /\ events = 0

\* no page has been opened
NoPage ==
    /\ NoSession
    /\ searchParams = <<>>
    /\ geometries = <<>>
    /\ minimumsRaw = <<>>
    /\ selectedMonths = <<>>
    /\ selectedHours = <<>>
    /\ selectedCells = <<>>
    /\ filtered_minimums = <<>>

\* build_report has not been called
NoReport ==
    /\ NoDerived
    /\ meta_data = {}
    /\ context_df = EmptyDf
    /\ model_actuals_df = EmptyDf
    /\ reference_model_actuals_df = EmptyDf
    /\ selections_actuals_df = {}
    /\ existing_dir = NoDirectory
    /\ report_dir = NoDirectory
    /\ cell_ids = <<>>
    /\ cell = 0

\* ------------------------------------------------- the Likelihood Engine
\* the blend with the two models exchanged
Odds_Swapped(eps, G_B, G_H) ==
    [i \in 1..Len(G_B) |->
        [j \in 1..Len(G_B[i]) |->
            RatAdd(RatMul(eps, G_B[i][j]),
                   RatMul(RatSub(One, eps), G_H[i][j]))]]

\* O = eps * G_H + (1 - eps) * G_B, elementwise
Odds(eps, G_B, G_H) ==
    [i \in 1..Len(G_B) |->
        [j \in 1..Len(G_B[i]) |->
            RatAdd(RatMul(eps, G_H[i][j]),
                   RatMul(RatSub(One, eps), G_B[i][j]))]]

\* G_eps: every element of O divided by its row sum
RowNormalize(O) ==
    [i \in 1..Len(O) |->
        [j \in 1..Len(O[i]) |-> RatDiv(O[i][j], RatSum(O[i]))]]

\* the row sums of G_eps * (1 - C): the choices that were not selected
SelectedProbabilities_Unselected(G, C) ==
    [i \in 1..Len(G) |->
        RatSum([j \in 1..Len(G[i]) |-> RatMul(G[i][j], <<1 - C[i][j], 1>>)])]

\* P(D_i | eps): the row sums of G_eps * C (elementwise product)
SelectedProbabilities(G, C) ==
    [i \in 1..Len(G) |->
        RatSum([j \in 1..Len(G[i]) |-> RatMul(G[i][j], <<C[i][j], 1>>)])]

\* the likelihood with a probability that is not positive floored, not refused
Floor(q) == IF RatLeq(q, Zero) THEN Rat(1, 1000000) ELSE q
log_likelihood_member_Floored(eps, G_B, G_H, C) ==
    LET P == SelectedProbabilities(RowNormalize(Odds(eps, G_B, G_H)), C)
    IN  [error |-> None,
         value |-> LogSum([i \in 1..Len(P) |-> Log(Floor(P[i]))])]

\* log_likelihood_member(epsilon, reference_model_matrix, model_matrix,
\* selections_matrix): sum_i log P(D_i | eps), or NumericalError when some
\* P(D_i | eps) is zero or negative
log_likelihood_member(eps, G_B, G_H, C) ==
    LET P == SelectedProbabilities(RowNormalize(Odds(eps, G_B, G_H)), C)
    IN  IF \E i \in 1..Len(P) : RatLeq(P[i], Zero)
        THEN [error |-> "NumericalError", value |-> NegInf]
        ELSE [error |-> None,
              value |-> LogSum([i \in 1..Len(P) |-> Log(P[i])])]

\* prior_probs, defaulting to even likelihood for all eps_i
PriorOrUniform(E, prior) ==
    IF prior = <<>> THEN [i \in 1..Len(E) |-> Rat(1, Len(E))] ELSE prior

\* L_i = log P(eps_i) + sum_j log P(D_j | eps_i)
LogPosteriors(G_B, G_H, C, E, prior) ==
    [i \in 1..Len(E) |->
        LogPlus(Log(PriorOrUniform(E, prior)[i]),
                log_likelihood_member(E[i], G_B, G_H, C).value)]

\* the ratios r_i returned as they are, not divided by their sum
Normalize_Ratios(L) ==
    [i \in 1..Len(L) |-> Exp(LogMinus(L[i], LogMax(L)))]

\* r_i = exp(L_i - max L), P(eps_i | D) = r_i / sum_j r_j
Normalize(L) ==
    LET r == [i \in 1..Len(L) |-> Exp(LogMinus(L[i], LogMax(L)))]
    IN  [i \in 1..Len(L) |-> RatDiv(r[i], RatSum(r))]

\* the values are checked to lie in [0, 1], their order is not
EpsilonsValid_RangeOnly(E) ==
    \A i \in 1..Len(E) : RatLeq(Zero, E[i]) /\ RatLeq(E[i], One)

\* the epsilon values are in [0, 1] and sorted ascending
EpsilonsValid(E) ==
    /\ \A i \in 1..Len(E) : RatLeq(Zero, E[i]) /\ RatLeq(E[i], One)
    /\ \A i \in 1..Len(E) : \A j \in 1..Len(E) :
          i < j => RatLeq(E[i], E[j])

\* prob_members(reference_model_matrix, model_matrix, selections_matrix,
\* epsilons, prior_probs)
prob_members(G_B, G_H, C, E, prior) ==
    IF ~EpsilonsValid(E)
    THEN [error |-> "ValidationError", support |-> <<>>]
    ELSE IF \E i \in 1..Len(E) :
          log_likelihood_member(E[i], G_B, G_H, C).error # None
    THEN [error |-> "NumericalError", support |-> <<>>]
    ELSE [error |-> None,
          support |-> Normalize(LogPosteriors(G_B, G_H, C, E, prior))]

\* ------------------------------------------ inputs of the Likelihood Engine
\* the probabilities of one decision's two choices under the model ...
ModelRows ==
    { <<Rat(1, 1), Rat(0, 1)>>, <<Rat(3, 4), Rat(1, 4)>>,
      <<Rat(1, 2), Rat(1, 4)>>, <<Rat(5, 4), Rat(-1, 4)>> }
\* ... and under the reference model
ReferenceRows ==
    { <<Rat(1, 1), Rat(0, 1)>>, <<Rat(1, 2), Rat(1, 2)>> }
\* one row of a one-hot selection matrix
SelectionRows == { <<1, 0>>, <<0, 1>> }

\* the sequence of the elements of a set of rationals, ascending
RECURSIVE SortedSeq(_)
SortedSeq(S) ==
    IF S = {} THEN <<>>
    ELSE LET m == CHOOSE x \in S : \A y \in S : RatLeq(x, y)
         IN  <<m>> \o SortedSeq(S \ {m})

EpsilonValues == { Rat(0, 1), Rat(1, 2), Rat(1, 1) }
\* the non-empty ascending sequences of mixture weights
EpsilonSequences == { SortedSeq(S) : S \in (SUBSET EpsilonValues) \ {{}} }

\* a prior that is not uniform: P(eps_i) proportional to i
SkewedPrior(n) == [i \in 1..n |-> Rat(2 * i, n * (n + 1))]

\* the state before a call of the Likelihood Engine
InitLik ==
    /\ pc = "start"
    /\ error = None
    /\ \E n \in 1..MaxDecisions :
          /\ reference_model_matrix \in [1..n -> ReferenceRows]
          /\ model_matrix \in [1..n -> ModelRows]
          /\ selection_matrix \in [1..n -> SelectionRows]
    /\ epsilons \in EpsilonSequences
    /\ prior_probs \in {<<>>, SkewedPrior(Len(epsilons))}
    /\ epsilon = Zero
    /\ log_likelihood = NegInf
    /\ support = <<>>
    /\ mixtures_df = EmptyDf
    /\ NoReport
    /\ NoPage
    /\ partials = {}
    /\ NoDataframes

\* a call of log_likelihood_member for one member of the family
LogLikelihoodMember ==
    /\ pc = "start"
    /\ \E i \in 1..Len(epsilons) :
          LET r == log_likelihood_member(epsilons[i], reference_model_matrix,
                                         model_matrix, selection_matrix)
          IN  /\ epsilon' = epsilons[i]
              /\ log_likelihood' = r.value
              /\ error' = r.error
    /\ pc' = "log_likelihood_member"
    /\ UNCHANGED <<matrixVars, dfVars, epsilons, prior_probs, support,
                   mixtures_df, reportVars, pageVars, partials>>

\* a call of prob_members
ProbMembers ==
    /\ pc = "start"
    /\ LET r == prob_members(reference_model_matrix, model_matrix,
                             selection_matrix, epsilons, prior_probs)
       IN  /\ support' = r.support
           /\ error' = r.error
    /\ pc' = "prob_members"
    /\ UNCHANGED <<matrixVars, dfVars, epsilons, callVars, mixtures_df,
                   reportVars, pageVars, partials>>

NextLik == LogLikelihoodMember \/ ProbMembers

SpecLik == InitLik /\ [][NextLik]_vars

\* ---------------------------------------- claims on the Likelihood Engine
\* every row of the matrix is a probability distribution
RowsSumToOne(G) == \A i \in 1..Len(G) : RatSum(G[i]) = One

\* the column of the choice selected in decision i
SelectedColumn(C, i) == CHOOSE j \in 1..Len(C[i]) : C[i][j] = 1

\* the product over the decisions of the probability G gives the selection
RECURSIVE DirectLikelihood(_, _, _)
DirectLikelihood(G, C, n) ==
    IF n = 0 THEN One
    ELSE RatMul(G[n][SelectedColumn(C, n)], DirectLikelihood(G, C, n - 1))

\* the blended probability of the selection of decision i at eps
BlendedSelected(eps, i) ==
    LET s == SelectedColumn(selection_matrix, i)
        o(j) == RatAdd(RatMul(eps, model_matrix[i][j]),
                       RatMul(RatSub(One, eps), reference_model_matrix[i][j]))
    IN  RatDiv(o(s), RatSum([j \in 1..Len(model_matrix[i]) |-> o(j)]))

\* C1: the vector prob_members returns sums to 1.
C1_SupportSumsToOne ==
    (pc = "prob_members" /\ error = None) =>
        /\ Len(support) = Len(epsilons)
        /\ RatSum(support) = One

\* prob_members returned the posterior of a family of three members over two
\* decisions under a prior that is not uniform, and the posterior is not flat
C1_Witness ==
    /\ pc = "prob_members" /\ error = None
    /\ Len(epsilons) = 3 /\ prior_probs # <<>>
    /\ Len(model_matrix) = 2
    /\ support[1] # support[3]
    /\ RatSum(model_matrix[1]) # One

\* C7: on matrices whose rows are probability distributions,
\* log_likelihood_member at epsilon = 0 is the log-likelihood of the
\* selections under the reference probabilities themselves, and at
\* epsilon = 1 under the hypothesis probabilities themselves.
C7_EndpointLikelihoods ==
    (pc = "log_likelihood_member" /\ error = None) =>
        /\ (epsilon = Zero /\ RowsSumToOne(reference_model_matrix)) =>
              log_likelihood =
                  Log(DirectLikelihood(reference_model_matrix,
                                       selection_matrix,
                                       Len(selection_matrix)))
        /\ (epsilon = One /\ RowsSumToOne(model_matrix)) =>
              log_likelihood =
                  Log(DirectLikelihood(model_matrix, selection_matrix,
                                       Len(selection_matrix)))

\* log_likelihood_member returned at epsilon = 1 for two decisions whose
\* hypothesis and reference probabilities differ at the selections
C7_Witness ==
    /\ pc = "log_likelihood_member" /\ error = None
    /\ epsilon = One /\ RowsSumToOne(model_matrix)
    /\ Len(model_matrix) = 2
    /\ log_likelihood # Log(One)
    /\ log_likelihood #
          Log(DirectLikelihood(reference_model_matrix, selection_matrix, 2))

\* C8: when the blended probability of some decision's selection is zero or
\* negative, log_likelihood_member raises NumericalError and returns nothing.
C8_ZeroProbabilityRaises ==
    (/\ pc = "log_likelihood_member"
     /\ \E i \in 1..Len(selection_matrix) :
           RatLeq(BlendedSelected(epsilon, i), Zero)) =>
        /\ error = "NumericalError"
        /\ log_likelihood = NegInf

\* log_likelihood_member raised at an interior epsilon, where the
\* selection has probability zero under both models
C8_Witness ==
    /\ pc = "log_likelihood_member"
    /\ error = "NumericalError"
    /\ epsilon = Rat(1, 2)
    /\ \E i \in 1..Len(selection_matrix) :
          BlendedSelected(epsilon, i) = Zero

\* ------------------------------------------------------ the Matrix Builder
\* the elements of a set of integer keys, ascending
RECURSIVE SortedKeys(_)
SortedKeys(S) ==
    IF S = {} THEN <<>>
    ELSE LET m == CHOOSE x \in S : \A y \in S : x <= y
         IN  <<m>> \o SortedKeys(S \ {m})

\* the (_decision, _choice) pairs of a dataframe of predictions
Universe(df) == DOMAIN df
\* the decisions of a set of (_decision, _choice) pairs
DecisionsOf(pairs) == { p[1] : p \in pairs }
\* the choices of a decision, in the fixed column order
ChoicesOf(pairs, d) == SortedKeys({ p[2] : p \in { q \in pairs : q[1] = d } })

\* N_C: the maximum number of choices across the decisions
MaxChoices(pairs) ==
    LET counts == { Len(ChoicesOf(pairs, d)) : d \in DecisionsOf(pairs) }
    IN  CHOOSE n \in counts : \A m \in counts : m <= n

\* the probabilities of a dataframe as an N_D x N_C matrix: one row per
\* decision, one column per choice of the shared layout; a cell the
\* dataframe has no row for is padded with 0
ProbabilityMatrix(df, pairs) ==
    LET ds == SortedKeys(DecisionsOf(pairs))
    IN  [i \in 1..Len(ds) |->
            [j \in 1..MaxChoices(pairs) |->
                IF /\ j <= Len(ChoicesOf(pairs, ds[i]))
                   /\ <<ds[i], ChoicesOf(pairs, ds[i])[j]>> \in DOMAIN df
                THEN df[<<ds[i], ChoicesOf(pairs, ds[i])[j]>>]
                ELSE Zero]]

\* the selections as a binary N_D x N_C matrix in the same layout
SelectionMatrix(selections, pairs) ==
    LET ds == SortedKeys(DecisionsOf(pairs))
    IN  [i \in 1..Len(ds) |->
            [j \in 1..MaxChoices(pairs) |->
                IF /\ j <= Len(ChoicesOf(pairs, ds[i]))
                   /\ <<ds[i], ChoicesOf(pairs, ds[i])[j]>> \in selections
                THEN 1 ELSE 0]]

RECURSIVE IntSum(_)
IntSum(s) == IF s = <<>> THEN 0 ELSE Head(s) + IntSum(Tail(s))

\* the universes compared by the number of their rows only
SameUniverse_BySize(df1, df2) ==
    Cardinality(Universe(df1)) = Cardinality(Universe(df2))

\* the two dataframes have precisely the same (_decision, _choice) pairs
SameUniverse(df1, df2) == Universe(df1) = Universe(df2)

\* a decision without a selection is refused, one with several is not
OneSelectionPerRow_AtLeast(C) == \A i \in 1..Len(C) : IntSum(C[i]) >= 1

\* every row of the selection matrix sums to exactly 1
OneSelectionPerRow(C) == \A i \in 1..Len(C) : IntSum(C[i]) = 1

\* build_model_matrices(model_df, reference_model_df, selections_df)
build_model_matrices(mdf, rdf, sdf) ==
    LET pairs == Universe(mdf)
        failed == [error |-> "ValidationError", model_matrix |-> <<>>,
                   reference_model_matrix |-> <<>>,
                   selection_matrix |-> <<>>]
    IN  IF ~SameUniverse(mdf, rdf) THEN failed
        ELSE IF ~OneSelectionPerRow(SelectionMatrix(sdf, pairs)) THEN failed
        ELSE [error |-> None,
              model_matrix |-> ProbabilityMatrix(mdf, pairs),
              reference_model_matrix |-> ProbabilityMatrix(rdf, pairs),
              selection_matrix |-> SelectionMatrix(sdf, pairs)]

\* ------------------------------------------- inputs of the Matrix Builder
DecisionKeys == 1..MaxDecisions
ChoiceKeys == {1, 2}
AllPairs == DecisionKeys \X ChoiceKeys

\* the probability the model gives a choice (the first one is favoured)
ModelProbability(p) == IF p[2] = 1 THEN Rat(3, 4) ELSE Rat(1, 4)
\* the probability the reference model gives a choice (uniform)
ReferenceProbability(p) == Rat(1, 2)

\* the state before a call of build_model_matrices: two dataframes of
\* predictions over any two universes, and selections among the model's
\* decision-choice pairs
InitMatrices ==
    /\ pc = "start"
    /\ error = None
    /\ \E U \in (SUBSET AllPairs) \ {{}} :
          /\ model_df = [p \in U |-> ModelProbability(p)]
          /\ selections_df \in SUBSET U
    /\ \E U \in (SUBSET AllPairs) \ {{}} :
          reference_model_df = [p \in U |-> ReferenceProbability(p)]
    /\ epsilons = <<>>
    /\ NoMatrices
    /\ NoLikelihoodCall
    /\ support = <<>>
    /\ mixtures_df = EmptyDf
    /\ NoReport
    /\ NoPage
    /\ partials = {}

\* a call of build_model_matrices
BuildModelMatrices ==
    /\ pc = "start"
    /\ LET r == build_model_matrices(model_df, reference_model_df,
                                     selections_df)
       IN  /\ error' = r.error
           /\ model_matrix' = r.model_matrix
           /\ reference_model_matrix' = r.reference_model_matrix
           /\ selection_matrix' = r.selection_matrix
    /\ pc' = "build_model_matrices"
    /\ UNCHANGED <<dfVars, epsilons, callVars, support, mixtures_df,
                   reportVars, pageVars, partials>>

NextMatrices == BuildModelMatrices

SpecMatrices == InitMatrices /\ [][NextMatrices]_vars

\* ------------------------------------------ claims on the Matrix Builder
\* the number of selections recorded for a decision
SelectionCount(d) == Cardinality({ p \in selections_df : p[1] = d })

\* C9: building the matrices of a pair of dataframes whose sets of
\* (decision, choice) pairs differ fails with a validation error, and it
\* succeeds only for identical universes.
C9_UniverseMismatchRejected ==
    (pc = "build_model_matrices") =>
        /\ (\E p \in AllPairs :
               (p \in DOMAIN model_df) # (p \in DOMAIN reference_model_df))
             => error = "ValidationError"
        /\ error = None =>
             \A p \in AllPairs :
                 (p \in DOMAIN model_df) = (p \in DOMAIN reference_model_df)

\* build_model_matrices refused two dataframes with the same decisions and
\* the same number of rows but different pairs, whose selections are valid
C9_Witness ==
    /\ pc = "build_model_matrices"
    /\ error = "ValidationError"
    /\ DOMAIN model_df # DOMAIN reference_model_df
    /\ Cardinality(DOMAIN model_df) = Cardinality(DOMAIN reference_model_df)
    /\ DecisionsOf(DOMAIN model_df) = DecisionsOf(DOMAIN reference_model_df)
    /\ \A d \in DecisionsOf(DOMAIN model_df) : SelectionCount(d) = 1

\* C10: selections in which some decision has no selection or more than one
\* are refused with a validation error; every selection matrix returned
\* has exactly one 1 in every row.
C10_OneSelectionPerDecision ==
    (pc = "build_model_matrices") =>
        /\ (\E d \in DecisionsOf(DOMAIN model_df) : SelectionCount(d) # 1)
             => error = "ValidationError"
        /\ error = None =>
             /\ Len(selection_matrix) =
                    Cardinality(DecisionsOf(DOMAIN model_df))
             /\ \A i \in 1..Len(selection_matrix) :
                   \E j \in 1..Len(selection_matrix[i]) :
                       /\ selection_matrix[i][j] = 1
                       /\ \A k \in 1..Len(selection_matrix[i]) :
                             k # j => selection_matrix[i][k] = 0

\* build_model_matrices refused selections with two choices for one
\* decision (and one for every other), over identical universes
C10_Witness ==
    /\ pc = "build_model_matrices"
    /\ error = "ValidationError"
    /\ DOMAIN model_df = DOMAIN reference_model_df
    /\ \E d \in DecisionsOf(DOMAIN model_df) : SelectionCount(d) = 2
    /\ \A d \in DecisionsOf(DOMAIN model_df) : SelectionCount(d) >= 1
    /\ Cardinality(DecisionsOf(DOMAIN model_df)) = 2

\* --------------------------------------------------- the Mixture Generator
\* step 1: the rows of the join of the two dataframes on (_decision, _choice)
JoinedPairs(mdf, rdf) == Universe(mdf) \cap Universe(rdf)

\* the odds with the weights of the two models exchanged
MixtureOdds_Swapped(eps, g_h, g_b) ==
    RatAdd(RatMul(g_b, eps), RatMul(RatSub(One, eps), g_h))

\* step 3: the odds of a row, G_H * eps + (1 - eps) * G_B
MixtureOdds(eps, g_h, g_b) ==
    RatAdd(RatMul(g_h, eps), RatMul(RatSub(One, eps), g_b))

\* the sum of a function of rationals over a set of keys
RECURSIVE SumOver(_, _)
SumOver(f, keys) ==
    IF keys = {} THEN Zero
    ELSE LET k == CHOOSE x \in keys : TRUE
         IN  RatAdd(f[k], SumOver(f, keys \ {k}))

\* the odds summed over a whole decision, all its epsilons together
OddsSum_AcrossEpsilons(odds, d, eps) ==
    SumOver(odds, { k \in DOMAIN odds : k[1] = d })

\* step 4: the sum of the odds across the choices of a decision, for one
\* epsilon
OddsSum(odds, d, eps) ==
    SumOver(odds, { k \in DOMAIN odds : k[1] = d /\ k[3] = eps })

\* compute_mixtures(model_df, reference_model_df, epsilons): one row per
\* (_decision, _choice, epsilon) with the probability odds / sum of odds
compute_mixtures(mdf, rdf, E) ==
    LET rows == { <<p[1], p[2], E[i]>> :
                      p \in JoinedPairs(mdf, rdf), i \in 1..Len(E) }
        odds == [k \in rows |->
                    MixtureOdds(k[3], mdf[<<k[1], k[2]>>],
                                rdf[<<k[1], k[2]>>])]
    IN  [k \in rows |-> RatDiv(odds[k], OddsSum(odds, k[1], k[3]))]

\* ---------------------------------------- inputs of the Mixture Generator
\* a decision: its choices and the probabilities both models give them
DecisionCases ==
    { [choices |-> <<1, 2>>, model |-> m, reference |-> r] :
          m \in ModelRows, r \in ReferenceRows }
    \cup
    { [choices |-> <<2>>, model |-> <<m>>, reference |-> <<Rat(1, 1)>>] :
          m \in { Rat(1, 1), Rat(1, 2) } }

\* the position of a choice among the choices of a decision case
ChoiceIndex(case, c) ==
    CHOOSE k \in 1..Len(case.choices) : case.choices[k] = c

\* the (_decision, _choice) pairs of a sequence of decision cases
CasePairs(cases) ==
    { p \in (1..Len(cases)) \X ChoiceKeys :
          \E k \in 1..Len(cases[p[1]].choices) :
              cases[p[1]].choices[k] = p[2] }

\* the model's dataframe and the reference model's, over the same universe
ModelDf(cases) ==
    [p \in CasePairs(cases) |->
        cases[p[1]].model[ChoiceIndex(cases[p[1]], p[2])]]
ReferenceDf(cases) ==
    [p \in CasePairs(cases) |->
        cases[p[1]].reference[ChoiceIndex(cases[p[1]], p[2])]]

\* the state before a call of compute_mixtures
InitMix ==
    /\ pc = "start"
    /\ error = None
    /\ \E n \in 1..MaxDecisions :
          \E cases \in [1..n -> DecisionCases] :
              /\ model_df = ModelDf(cases)
              /\ reference_model_df = ReferenceDf(cases)
    /\ selections_df = {}
    /\ epsilons \in EpsilonSequences
    /\ NoMatrices
    /\ NoLikelihoodCall
    /\ support = <<>>
    /\ mixtures_df = EmptyDf
    /\ NoReport
    /\ NoPage
    /\ partials = {}

\* a call of compute_mixtures
ComputeMixtures ==
    /\ pc = "start"
    /\ IF EpsilonsValid(epsilons)
       THEN /\ mixtures_df' =
                  compute_mixtures(model_df, reference_model_df, epsilons)
            /\ error' = error
       ELSE /\ mixtures_df' = mixtures_df
            /\ error' = "ValidationError"
    /\ pc' = "compute_mixtures"
    /\ UNCHANGED <<epsilons, dfVars, matrixVars, callVars, support,
                   reportVars, pageVars, partials>>

NextMix == ComputeMixtures

SpecMix == InitMix /\ [][NextMix]_vars

\* --------------------------------------- claims on the Mixture Generator
\* the choices a dataframe has for a decision
DfChoices(df, d) == { p[2] : p \in { q \in DOMAIN df : q[1] = d } }

\* the sum of the probabilities a dataframe gives the choices of a decision
DfRowSum(df, d) ==
    RatSum([k \in 1..Len(SortedKeys(DfChoices(df, d))) |->
               df[<<d, SortedKeys(DfChoices(df, d))[k]>>]])

\* C5: for every decision and every epsilon of the sequence, the
\* probabilities compute_mixtures gives that decision's choices sum to 1.
C5_MixturesSumToOne ==
    (pc = "compute_mixtures") =>
        \A d \in DecisionsOf(DOMAIN model_df) :
            \A i \in 1..Len(epsilons) :
                LET cs == SortedKeys(DfChoices(model_df, d))
                IN  RatSum([k \in 1..Len(cs) |->
                               mixtures_df[<<d, cs[k], epsilons[i]>>]]) = One

\* compute_mixtures returned the three mixtures of two decisions, one of
\* which the model gives odds that do not sum to 1
C5_Witness ==
    /\ pc = "compute_mixtures"
    /\ Len(epsilons) = 3
    /\ DecisionsOf(DOMAIN model_df) = {1, 2}
    /\ DfChoices(model_df, 1) = {1, 2}
    /\ DfRowSum(model_df, 1) # One
    /\ mixtures_df[<<1, 1, Rat(1, 2)>>] # mixtures_df[<<1, 1, One>>]

\* C6: for every decision whose reference probabilities are a distribution,
\* the mixture at epsilon = 0 is the reference probability of every choice;
\* for every decision whose hypothesis probabilities are a distribution, the
\* mixture at epsilon = 1 is the hypothesis probability of every choice.
C6_MixtureEndpoints ==
    (pc = "compute_mixtures") =>
        \A p \in DOMAIN model_df :
            \A i \in 1..Len(epsilons) :
                /\ (epsilons[i] = Zero /\ DfRowSum(reference_model_df, p[1]) = One)
                     => mixtures_df[<<p[1], p[2], epsilons[i]>>] =
                            reference_model_df[p]
                /\ (epsilons[i] = One /\ DfRowSum(model_df, p[1]) = One)
                     => mixtures_df[<<p[1], p[2], epsilons[i]>>] = model_df[p]

\* compute_mixtures returned the mixtures at 0, 1/2 and 1 of a decision the
\* two models, both distributions, disagree on
C6_Witness ==
    /\ pc = "compute_mixtures"
    /\ Len(epsilons) = 3
    /\ DfChoices(model_df, 1) = {1, 2}
    /\ DfRowSum(model_df, 1) = One
    /\ DfRowSum(reference_model_df, 1) = One
    /\ model_df[<<1, 1>>] = Rat(3, 4)
    /\ reference_model_df[<<1, 1>>] = Rat(1, 2)
    /\ mixtures_df[<<1, 1, Zero>>] = Rat(1, 2)
    /\ mixtures_df[<<1, 1, One>>] = Rat(3, 4)

\* ------------------------------------------------- the Report Assembler
\* the fields build_report checks are in the meta_data passed to it
RequiredMetaFields ==
    { "scenario_id", "name", "species", "model", "reference_model", "region",
      "reference_region", "description", "reference_time_window", "zoom",
      "center" }

\* all required metadata fields are present
MetaDataValid(meta) == RequiredMetaFields \subseteq meta

\* the selections are passed on without a check of their own
SelectionsValid_Unchecked(mdf, sdf) == TRUE

\* selections_actuals_df has the same set of _decision values as
\* model_actuals_df, each _choice matched to a choice of model_actuals_df,
\* one choice per decision
SelectionsValid(mdf, sdf) ==
    /\ DecisionsOf(sdf) = DecisionsOf(Universe(mdf))
    /\ sdf \subseteq Universe(mdf)
    /\ OneSelectionPerRow(SelectionMatrix(sdf, Universe(mdf)))

\* compute_support(model_df, reference_model_df, selections_df, epsilons):
\* build_model_matrices, then prob_members with the default prior
compute_support(mdf, rdf, sdf, E) ==
    LET m == build_model_matrices(mdf, rdf, sdf)
    IN  IF m.error # None THEN [error |-> m.error, support |-> <<>>]
        ELSE prob_members(m.reference_model_matrix, m.model_matrix,
                          m.selection_matrix, E, <<>>)

\* ------------------------------------------ the Spatial/Temporal Indexer
\* an h3 index is the sequence of its hexadecimal digits, a datetime is
\* <<month, day, hour>> of one year: both are ordered as strings are,
\* position by position
LexLess(a, b) ==
    \E k \in 1..Len(b) :
        /\ k <= Len(a) + 1
        /\ \A i \in 1..(k - 1) : a[i] = b[i]
        /\ IF k = Len(a) + 1 THEN TRUE ELSE a[k] < b[k]

\* a column of a dataframe, in row order
Column(df, name) == [i \in 1..Len(df) |-> df[i][name]]

\* pd.unique: the distinct values in order of first appearance
RECURSIVE unique(_)
unique(s) ==
    IF s = <<>> THEN <<>>
    ELSE LET n == Len(s)
             u == unique(SubSeq(s, 1, n - 1))
         IN  IF \E j \in 1..(n - 1) : s[j] = s[n] THEN u
             ELSE Append(u, s[n])

\* x put in its place in an ascending sequence
RECURSIVE Insert(_, _)
Insert(x, t) ==
    IF t = <<>> THEN <<x>>
    ELSE IF LexLess(Head(t), x) THEN <<Head(t)>> \o Insert(x, Tail(t))
    ELSE <<x>> \o t

\* sorted(): the values of a sequence in ascending order
RECURSIVE sorted(_)
sorted(s) == IF s = <<>> THEN <<>> ELSE Insert(Head(s), sorted(Tail(s)))

\* the cell ids are given in the order the h3 indices first appear
build_geojson_h3_Unsorted(ctx) == unique(Column(ctx, "h3_index"))

\* build_geojson_h3: the distinct h3 indices in alphabetical order; the
\* cell_id of an index is its position, counted from 0
build_geojson_h3(ctx) == sorted(unique(Column(ctx, "h3_index")))

\* the cell_id of an h3 index
CellIdOf(ids, h3) == (CHOOSE k \in 1..Len(ids) : ids[k] = h3) - 1

\* cell_id_df: _decision, _choice and the cell_id of the row's h3 index
cell_id_df(ctx, ids) ==
    [i \in 1..Len(ctx) |->
        [decision |-> ctx[i].decision, choice |-> ctx[i].choice,
         cell_id |-> CellIdOf(ids, ctx[i].h3_index)]]

\* the datetimes are put in order and the repeated ones are kept
build_timeline_Repeated(ctx) == sorted(Column(ctx, "datetime"))

\* build_timeline: the unique datetimes, in order
build_timeline(ctx) == sorted(unique(Column(ctx, "datetime")))

\* the files of a report other than the occupancy files, in the order
\* they are persisted
GlobalArtifacts ==
    << "meta_data.json", "geometries.geojson", "cell_depths.json",
       "timestamps.json", "minimums.json" >>

\* {cell_id}_occupancy.parquet.gz
Occupancy == "occupancy.parquet.gz"

\* a file of the report directory: its name, the cell_id of an occupancy
\* file (0 for the others), and the build that wrote it ("old" or "new")
Artifact(name, id, build) == <<name, id, build>>

\* the complete set of files of a report over n cells
ReportFiles(n, build) ==
    { Artifact(GlobalArtifacts[i], 0, build) : i \in 1..Len(GlobalArtifacts) }
    \cup { Artifact(Occupancy, c, build) : c \in 0..(n - 1) }

\* the existing directory is left in place
rmtree_Kept(dir) == dir

\* build_report removes the existing directory ...
rmtree(dir) == NoDirectory

\* ... and recreates it
makedirs(dir) == [exists |-> TRUE, files |-> dir.files]

\* a file written into the directory replaces the file of that name
write(dir, name, id) ==
    [exists |-> dir.exists,
     files |-> { f \in dir.files : ~(f[1] = name /\ f[2] = id) }
               \cup { Artifact(name, id, "new") }]

\* the directory is prepared first and the inputs are validated after
Steps_DirectoryFirst ==
    << "remove_directory", "create_directory", "validate_meta_data",
       "validate_model", "validate_actuals", "validate_selections",
       "validate_epsilons", "build_geojson_h3", "compute_support",
       "compute_mixtures", "write_occupancy" >> \o GlobalArtifacts \o << "done" >>

\* the steps of build_report in order
Steps ==
    << "validate_meta_data", "validate_model", "validate_actuals",
       "validate_selections", "validate_epsilons", "remove_directory",
       "create_directory", "build_geojson_h3", "compute_support",
       "compute_mixtures", "write_occupancy" >> \o GlobalArtifacts \o << "done" >>

\* the step after a step
NextStep(step) ==
    Steps[(CHOOSE i \in 1..Len(Steps) : Steps[i] = step) + 1]

\* the steps that validate the inputs
ValidationSteps ==
    { "validate_meta_data", "validate_model", "validate_actuals",
      "validate_selections", "validate_epsilons" }

\* the steps that write a file
WriteSteps ==
    { "write_occupancy" }
    \cup { GlobalArtifacts[i] : i \in 1..Len(GlobalArtifacts) }


\* ---------------------------------------- inputs of the Report Assembler
\* the metadata passed: complete, or with one required field missing
MetaDataCases ==
    { RequiredMetaFields }
    \cup { RequiredMetaFields \ {f} : f \in RequiredMetaFields }

\* a decision of the space and time of interest
ReportCase ==
    [choices |-> <<1, 2>>, model |-> <<Rat(3, 4), Rat(1, 4)>>,
     reference |-> <<Rat(1, 2), Rat(1, 2)>>]

\* a decision of the actuals
ActualsCases ==
    { [choices |-> <<1, 2>>, model |-> m, reference |-> r] :
          m \in { <<Rat(1, 1), Rat(0, 1)>>, <<Rat(3, 4), Rat(1, 4)>> },
          r \in { <<Rat(1, 1), Rat(0, 1)>>, <<Rat(1, 2), Rat(1, 2)>> } }

\* a dataframe, and the same dataframe with a row missing
WithOrWithoutRow(df, p) == { df, [q \in (DOMAIN df) \ {p} |-> df[q]] }

\* the h3 indices of the cells, by their digits
H3Indices == { <<8, 8, 1>>, <<8, 8, 2>> }

\* the datetime of a decision, <<month, day, hour>>
DatetimeOf(d) == <<d, 1, 6>>

\* a row of the context
ContextRow(d, c, h3, dt, bin) ==
    [decision |-> d, choice |-> c, h3_index |-> h3, datetime |-> dt,
     depth_bin |-> bin]

\* the mixture families asked for
ReportEpsilons ==
    { <<Zero, Rat(1, 2), One>>, <<Rat(1, 2), One>>, <<One, Zero>> }

\* the report directory before the build: none, or a complete report
\* written by an earlier build
ExistingDirs ==
    { NoDirectory }
    \cup { [exists |-> TRUE, files |-> ReportFiles(k, "old")] :
               k \in 1..MaxDecisions }

\* the state when build_report is called
InitReport ==
    /\ pc = Steps[1]
    /\ error = None
    /\ meta_data \in MetaDataCases
    /\ \E n \in 1..MaxDecisions :
          /\ model_df = ModelDf([i \in 1..n |-> ReportCase])
          /\ reference_model_df \in
                WithOrWithoutRow(ReferenceDf([i \in 1..n |-> ReportCase]),
                                 <<1, 2>>)
          /\ \E h \in [1..n -> H3Indices] :
                context_df =
                    [i \in 1..(2 * n) |->
                        ContextRow((i + 1) \div 2, 2 - (i % 2),
                                   h[(i + 1) \div 2],
                                   DatetimeOf((i + 1) \div 2),
                                   2 - (i % 2))]
    /\ \E a \in ActualsCases :
          /\ model_actuals_df = ModelDf(<<a>>)
          /\ reference_model_actuals_df \in
                WithOrWithoutRow(ReferenceDf(<<a>>), <<1, 2>>)
          /\ selections_actuals_df \in SUBSET CasePairs(<<a>>)
    /\ epsilons \in ReportEpsilons
    /\ existing_dir \in ExistingDirs
    /\ report_dir = existing_dir
    /\ selections_df = {}
    /\ NoMatrices
    /\ NoLikelihoodCall
    /\ support = <<>>
    /\ mixtures_df = EmptyDf
    /\ cell_ids = <<>>
    /\ cell = 0
    /\ NoDerived
    /\ NoPage
    /\ partials = {}

\* what a step of build_report leaves alone besides its own results
reportFrame ==
    <<epsilons, dfVars, matrixVars, callVars, reportInputs, derivedVars,
      pageVars, partials>>

\* a check passes and the build goes on, or fails and the build aborts
Check(valid) ==
    /\ error = None
    /\ IF valid
       THEN pc' = NextStep(pc) /\ error' = error
       ELSE pc' = pc /\ error' = "ValidationError"
    /\ UNCHANGED <<reportFrame, support, mixtures_df, report_dir, cell_ids,
                   cell>>

ValidateMetaData ==
    /\ pc = "validate_meta_data"
    /\ Check(MetaDataValid(meta_data))

ValidateModel ==
    /\ pc = "validate_model"
    /\ Check(SameUniverse(model_df, reference_model_df))

ValidateActuals ==
    /\ pc = "validate_actuals"
    /\ Check(SameUniverse(model_actuals_df, reference_model_actuals_df))

ValidateSelections ==
    /\ pc = "validate_selections"
    /\ Check(SelectionsValid(model_actuals_df, selections_actuals_df))

ValidateEpsilons ==
    /\ pc = "validate_epsilons"
    /\ Check(EpsilonsValid(epsilons))

RemoveDirectory ==
    /\ pc = "remove_directory" /\ error = None
    /\ report_dir' = IF report_dir.exists THEN rmtree(report_dir)
                     ELSE report_dir
    /\ pc' = NextStep(pc)
    /\ UNCHANGED <<reportFrame, error, support, mixtures_df, cell_ids, cell>>

CreateDirectory ==
    /\ pc = "create_directory" /\ error = None
    /\ report_dir' = makedirs(report_dir)
    /\ pc' = NextStep(pc)
    /\ UNCHANGED <<reportFrame, error, support, mixtures_df, cell_ids, cell>>

BuildGeojsonH3 ==
    /\ pc = "build_geojson_h3" /\ error = None
    /\ cell_ids' = build_geojson_h3(context_df)
    /\ pc' = NextStep(pc)
    /\ UNCHANGED <<reportFrame, error, support, mixtures_df, report_dir,
                   cell>>

ComputeSupport ==
    /\ pc = "compute_support" /\ error = None
    /\ LET r == compute_support(model_actuals_df, reference_model_actuals_df,
                                selections_actuals_df, epsilons)
       IN  /\ error' = r.error
           /\ support' = r.support
           /\ pc' = IF r.error = None THEN NextStep(pc) ELSE pc
    /\ UNCHANGED <<reportFrame, mixtures_df, report_dir, cell_ids, cell>>

ReportMixtures ==
    /\ pc = "compute_mixtures" /\ error = None
    /\ mixtures_df' = compute_mixtures(model_df, reference_model_df, epsilons)
    /\ pc' = NextStep(pc)
    /\ UNCHANGED <<reportFrame, error, support, report_dir, cell_ids, cell>>

\* the loop over the cells: one occupancy file per cell_id, one at a time
WriteOccupancy ==
    /\ pc = "write_occupancy" /\ error = None
    /\ report_dir' = write(report_dir, Occupancy, cell)
    /\ cell' = cell + 1
    /\ pc' = IF cell + 1 = Len(cell_ids) THEN NextStep(pc) ELSE pc
    /\ UNCHANGED <<reportFrame, error, support, mixtures_df, cell_ids>>

WriteArtifact ==
    /\ \E i \in 1..Len(GlobalArtifacts) : pc = GlobalArtifacts[i]
    /\ error = None
    /\ report_dir' = write(report_dir, pc, 0)
    /\ pc' = NextStep(pc)
    /\ UNCHANGED <<reportFrame, error, support, mixtures_df, cell_ids, cell>>

\* the storage refuses the write of a file and build_report aborts
WriteFails ==
    /\ pc \in WriteSteps /\ error = None
    /\ error' = "OSError"
    /\ UNCHANGED <<pc, reportFrame, support, mixtures_df, report_dir,
                   cell_ids, cell>>

NextReport ==
    \/ ValidateMetaData
    \/ ValidateModel
    \/ ValidateActuals
    \/ ValidateSelections
    \/ ValidateEpsilons
    \/ RemoveDirectory
    \/ CreateDirectory
    \/ BuildGeojsonH3
    \/ ComputeSupport
    \/ ReportMixtures
    \/ WriteOccupancy
    \/ WriteArtifact
    \/ WriteFails

SpecReport == InitReport /\ [][NextReport]_vars


\* --------------------------------------- claims on the Report Assembler
\* the files of a directory one build wrote
ArtifactsOf(dir, build) == { f \in dir.files : f[3] = build }

\* the number of cells of the report being built
CellCount ==
    Cardinality({ context_df[i].h3_index : i \in 1..Len(context_df) })

\* the complete set of files of the report being built
CompleteReport == ReportFiles(CellCount, "new")

\* build_report has raised
Aborted == error # None

\* the inputs pass every check: the required metadata fields are there,
\* the model pair and the actuals pair each share one universe, every
\* decision of the actuals has exactly one selection, and the epsilons are
\* in [0, 1], ascending
InputsValid ==
    /\ \A f \in RequiredMetaFields : f \in meta_data
    /\ DOMAIN model_df = DOMAIN reference_model_df
    /\ DOMAIN model_actuals_df = DOMAIN reference_model_actuals_df
    /\ \A p \in selections_actuals_df : p \in DOMAIN model_actuals_df
    /\ \A d \in { p[1] : p \in DOMAIN model_actuals_df } :
          Cardinality({ p \in selections_actuals_df : p[1] = d }) = 1
    /\ \A i \in 1..Len(epsilons) :
          /\ RatLeq(Zero, epsilons[i]) /\ RatLeq(epsilons[i], One)
          /\ i > 1 => RatLeq(epsilons[i - 1], epsilons[i])

\* nothing has been computed and the report location is as it was found
Untouched ==
    /\ report_dir = existing_dir
    /\ support = <<>>
    /\ mixtures_df = EmptyDf
    /\ cell_ids = <<>>
    /\ cell = 0

ScenarioCase ==
    [choices |-> <<1, 2>>, model |-> <<Rat(4, 5), Rat(1, 5)>>,
     reference |-> <<Rat(1, 2), Rat(1, 2)>>]

ScenarioSelections == { <<1, 1>>, <<2, 1>> }

\* the sequences of up to three different values a caller can pass as
\* epsilons: in or out of [0, 1], in any order
RECURSIVE Arrangements(_, _)
Arrangements(S, n) ==
    IF n = 0 THEN { <<>> }
    ELSE { <<x>> \o t : x \in S, t \in Arrangements(S, n - 1) }

ScenarioValues ==
    { Rat(-1, 2), Rat(0, 1), Rat(1, 2), Rat(1, 1), Rat(3, 2) }

ScenarioEpsilons ==
    { E \in UNION { Arrangements(ScenarioValues, n) : n \in 1..3 } :
          \A i \in 1..Len(E) : \A j \in 1..Len(E) : i # j => E[i] # E[j] }

\* the state before a call on the scenario's data
InitScenario ==
    /\ pc = "start"
    /\ error = None
    /\ epsilons \in ScenarioEpsilons
    /\ model_df = ModelDf(<<ScenarioCase, ScenarioCase>>)
    /\ reference_model_df = ReferenceDf(<<ScenarioCase, ScenarioCase>>)
    /\ selections_df = ScenarioSelections
    /\ LET m == build_model_matrices(model_df, reference_model_df,
                                     selections_df)
       IN  /\ model_matrix = m.model_matrix
           /\ reference_model_matrix = m.reference_model_matrix
           /\ selection_matrix = m.selection_matrix
    /\ NoLikelihoodCall
    /\ support = <<>>
    /\ mixtures_df = EmptyDf
    /\ NoReport
    /\ NoPage
    /\ partials = {}

\* a call of compute_support
ComputeSupportCall ==
    /\ pc = "start"
    /\ LET r == compute_support(model_df, reference_model_df, selections_df,
                                epsilons)
       IN  /\ support' = r.support
           /\ error' = r.error
    /\ pc' = "compute_support"
    /\ UNCHANGED <<matrixVars, dfVars, epsilons, callVars, mixtures_df,
                   reportVars, pageVars, partials>>

NextScenario == ProbMembers \/ ComputeMixtures \/ ComputeSupportCall

SpecScenario == InitScenario /\ [][NextScenario]_vars

C18_SupportFavoursHypothesis ==
    (/\ pc \in { "prob_members", "compute_support" }
     /\ error = None) =>
        \A a \in 1..Len(epsilons) : \A b \in 1..Len(epsilons) :
            (epsilons[a] = Zero /\ epsilons[b] = One) =>
                RatLess(support[a], support[b])

\* compute_support returned for epsilons [0, 0.5, 1]: the likelihoods
\* 0.25, 0.4225 and 0.64 normalised
C18_Witness ==
    /\ pc = "compute_support"
    /\ error = None
    /\ epsilons = <<Zero, Rat(1, 2), One>>
    /\ support = <<Rat(4, 21), Rat(169, 525), Rat(256, 525)>>


\* --------------------------- inputs of the Spatial/Temporal Indexer
SpacetimeH3 == { <<8, 1, 15>>, <<8, 2, 0>>, <<8, 1, 2>> }

SpacetimeDatetimes == { <<1, 31, 23>>, <<2, 1, 0>>, <<12, 1, 6>> }

\* the contexts of up to MaxRows rows, one row per decision, in any order
\* of their h3 indices and datetimes, with or without repeats
SpacetimeContexts ==
    UNION { { [i \in 1..n |->
                  ContextRow(i, 1, f[i][1], f[i][2], 1)] :
                f \in [1..n -> SpacetimeH3 \X SpacetimeDatetimes] } :
            n \in 1..MaxRows }

\* the state before a call of the indexer
InitSpacetime ==
    /\ pc = "start"
    /\ error = None
    /\ epsilons = <<>>
    /\ NoDataframes
    /\ NoMatrices
    /\ NoLikelihoodCall
    /\ support = <<>>
    /\ mixtures_df = EmptyDf
    /\ meta_data = {}
    /\ context_df \in SpacetimeContexts
    /\ model_actuals_df = EmptyDf
    /\ reference_model_actuals_df = EmptyDf
    /\ selections_actuals_df = {}
    /\ existing_dir = NoDirectory
    /\ report_dir = NoDirectory
    /\ cell_ids = <<>>
    /\ cell = 0
    /\ NoDerived
    /\ NoPage
    /\ partials = {}

\* a call of build_geojson_h3
BuildGeojsonH3Call ==
    /\ pc = "start"
    /\ cell_ids' = build_geojson_h3(context_df)
    /\ pc' = "build_geojson_h3"
    /\ UNCHANGED <<error, engineVars, reportInputs, report_dir, cell,
                   derivedVars, pageVars, partials>>

\* a call of build_timeline
BuildTimelineCall ==
    /\ pc = "start"
    /\ timeline' = build_timeline(context_df)
    /\ pc' = "build_timeline"
    /\ UNCHANGED <<error, engineVars, reportInputs, report_dir, cell_ids,
                   cell, cell_depths, occupancy_df, minimums, pageVars,
                   partials>>

NextSpacetime == BuildGeojsonH3Call \/ BuildTimelineCall

SpecSpacetime == InitSpacetime /\ [][NextSpacetime]_vars

\* the values a column of the context holds
ValuesOf(name) == { context_df[i][name] : i \in 1..Len(context_df) }

\* C12: build_geojson_h3 gives the n distinct h3 indices of the context
\* exactly the cell ids 0..n-1, a greater id to the index that is later in
\* lexicographic order, whatever the order of the rows and however often an
\* index is repeated; every row of cell_id_df carries the id of its index.
C12_CellIdsFollowKeys ==
    pc = "build_geojson_h3" =>
        LET keys == ValuesOf("h3_index")
            n == Cardinality(keys)
        IN  /\ Len(cell_ids) = n
            /\ { cell_ids[k] : k \in 1..Len(cell_ids) } = keys
            /\ { CellIdOf(cell_ids, h) : h \in keys } = 0..(n - 1)
            /\ \A a \in keys : \A b \in keys :
                  LexLess(a, b) <=>
                      CellIdOf(cell_ids, a) < CellIdOf(cell_ids, b)
            /\ \A i \in 1..Len(context_df) :
                  cell_ids[cell_id_df(context_df, cell_ids)[i].cell_id + 1] =
                      context_df[i].h3_index

\* three rows, the greatest index first and repeated: it gets cell id 1
C12_Witness ==
    /\ pc = "build_geojson_h3"
    /\ Column(context_df, "h3_index") = << <<8, 2, 0>>, <<8, 1, 15>>, <<8, 2, 0>> >>
    /\ cell_ids = << <<8, 1, 15>>, <<8, 2, 0>> >>

\* C13: build_timeline returns the distinct datetimes of the context, each
\* once, strictly ascending.
C13_TimelineAscending ==
    pc = "build_timeline" =>
        /\ Len(timeline) = Cardinality(ValuesOf("datetime"))
        /\ { timeline[k] : k \in 1..Len(timeline) } = ValuesOf("datetime")
        /\ \A k \in 1..(Len(timeline) - 1) :
              LexLess(timeline[k], timeline[k + 1])

\* three rows, the latest datetime first and the earliest twice
C13_Witness ==
    /\ pc = "build_timeline"
    /\ Column(context_df, "datetime") = << <<12, 1, 6>>, <<1, 31, 23>>, <<1, 31, 23>> >>
    /\ timeline = << <<1, 31, 23>>, <<12, 1, 6>> >>


\* ------------------------------------------- the cells of a depth report
\* a value that is missing (NaN, null)
Null == <<0, 0>>

\* the least of a non-empty set of rationals
RatMin(S) == CHOOSE x \in S : \A y \in S : RatLeq(x, y)

\* the mixtures joined to their context: one row per (_decision, _choice,
\* epsilon) with the cell_id, datetime and depth_bin of the choice
MixtureRows(mix, ctx, ids) ==
    { [cell_id |-> CellIdOf(ids, ctx[x[1]].h3_index),
       depth_bin |-> ctx[x[1]].depth_bin,
       datetime |-> ctx[x[1]].datetime,
       probability |-> mix[x[2]],
       epsilon |-> x[2][3]] :
        x \in { y \in (1..Len(ctx)) \X (DOMAIN mix) :
                  /\ y[2][1] = ctx[y[1]].decision
                  /\ y[2][2] = ctx[y[1]].choice } }

\* the rows of every cell are taken, whatever the cell
CellRows_All(rows, c) == rows

\* the rows of one cell
CellRows(rows, c) == { r \in rows : r.cell_id = c }

\* the depth bins of the scenario, ascending
DepthBins(ctx) == SortedKeys({ ctx[i].depth_bin : i \in 1..Len(ctx) })

\* build_cell_depths: the deepest depth bin per cell_id
build_cell_depths(ctx, ids) ==
    [c \in 0..(Len(ids) - 1) |->
        LET bins == { ctx[i].depth_bin :
                        i \in { j \in 1..Len(ctx) :
                                  CellIdOf(ids, ctx[j].h3_index) = c } }
        IN  CHOOSE b \in bins : \A o \in bins : o <= b]

\* the value of one place of the occupancy table: the probability of the
\* row of that datetime, epsilon and depth bin; null without such a row
OccupancyValue(rows, dt, eps, bin) ==
    LET hit == { r \in rows : /\ r.datetime = dt
                              /\ r.epsilon = eps
                              /\ r.depth_bin = bin }
    IN  IF hit = {} THEN Null ELSE (CHOOSE r \in hit : TRUE).probability

\* the columns laid out depth bin by depth bin:
\* col = depth_bin_idx * num_models + model_idx
build_occupancy_DepthMajor(rows, tl, bins) ==
    LET E == SortedSeq({ r.epsilon : r \in rows })
    IN  [t \in 1..Len(tl) |->
            [col \in 1..(Len(E) * Len(bins)) |->
                OccupancyValue(rows, tl[t], E[((col - 1) % Len(E)) + 1],
                               bins[((col - 1) \div Len(E)) + 1])]]

\* build_occupancy: the rows are the datetimes of the timeline in order,
\* the columns are model_idx * num_depth_bins + depth_bin_idx (from 0),
\* model_idx the index in the sorted unique epsilons of the mixture rows
build_occupancy(rows, tl, bins) ==
    LET E == SortedSeq({ r.epsilon : r \in rows })
    IN  [t \in 1..Len(tl) |->
            [col \in 1..(Len(E) * Len(bins)) |->
                OccupancyValue(rows, tl[t], E[((col - 1) \div Len(bins)) + 1],
                               bins[((col - 1) % Len(bins)) + 1])]]

\* the month of the year of a datetime, January = 0
MonthKey(dt) == dt[1] - 1

\* the hour of the day of a datetime, 0-23
HourOf(dt) == dt[3]

\* the rows of every member of the mixture family are binned
MinimumRows_AllMembers(rows) == rows

\* the rows of epsilon = 1, the non-reference model
MinimumRows(rows) == { r \in rows : r.epsilon = One }

\* build_minimums(mixture_df, minimums): (cell_id, depth_bin, month) -> the
\* minimum probability per hour 0-23, added to the minimums passed
build_minimums(rows, mins) ==
    LET sel == MinimumRows(rows)
        keys == { <<r.cell_id, r.depth_bin, MonthKey(r.datetime)>> :
                      r \in sel }
        seen(k, h) ==
            { r.probability :
                r \in { q \in sel :
                          /\ <<q.cell_id, q.depth_bin,
                               MonthKey(q.datetime)>> = k
                          /\ HourOf(q.datetime) = h } }
            \cup (IF k \in DOMAIN mins /\ mins[k][h + 1] # Null
                  THEN { mins[k][h + 1] } ELSE {})
    IN  [k \in (DOMAIN mins) \cup keys |->
            [i \in 1..24 |->
                IF seen(k, i - 1) = {} THEN Null
                ELSE RatMin(seen(k, i - 1))]]


\* -------------------------------- inputs of the cells of a depth report
\* a decision is a cell at a datetime, its choices are the depth bins there
DepthCases ==
    { [choices |-> <<1, 2>>, model |-> <<Rat(3, 4), Rat(1, 4)>>,
       reference |-> <<Rat(1, 2), Rat(1, 2)>>],
      [choices |-> <<1, 2>>, model |-> <<Rat(1, 4), Rat(3, 4)>>,
       reference |-> <<Rat(1, 2), Rat(1, 2)>>],
      [choices |-> <<1>>, model |-> <<Rat(1, 1)>>,
       reference |-> <<Rat(1, 1)>>] }

\* two datetimes in the same month at the same hour, one in another month
DepthDatetimes == { <<1, 15, 6>>, <<1, 20, 6>>, <<2, 1, 0>> }

\* the depth bin of a choice
DepthBinOf(c) == 10 * c

\* the mixture families asked for: with and without epsilon = 1
DepthEpsilons ==
    { <<Zero, Rat(1, 2), One>>, <<Zero, One>>, <<Zero, Rat(1, 2)>> }

\* the context of decisions 1..n: the rows of a decision follow each other
RECURSIVE ContextOf(_, _, _)
ContextOf(cases, place, n) ==
    IF n = 0 THEN <<>>
    ELSE ContextOf(cases, place, n - 1) \o
         [k \in 1..Len(cases[n].choices) |->
             ContextRow(n, cases[n].choices[k], place[n][1], place[n][2],
                        DepthBinOf(cases[n].choices[k]))]

\* the state when the cells of a report are about to be built
InitCells ==
    /\ pc = "start"
    /\ error = None
    /\ epsilons \in DepthEpsilons
    /\ \E n \in 1..MaxDecisions :
          \E cases \in [1..n -> DepthCases] :
             \E place \in [1..n -> H3Indices \X DepthDatetimes] :
                /\ \A i \in 1..n : \A j \in 1..n :
                      i # j => place[i] # place[j]
                /\ model_df = ModelDf(cases)
                /\ reference_model_df = ReferenceDf(cases)
                /\ context_df = ContextOf(cases, place, n)
    /\ selections_df = {}
    /\ NoMatrices
    /\ NoLikelihoodCall
    /\ support = <<>>
    /\ mixtures_df = EmptyDf
    /\ meta_data = {}
    /\ model_actuals_df = EmptyDf
    /\ reference_model_actuals_df = EmptyDf
    /\ selections_actuals_df = {}
    /\ existing_dir = NoDirectory
    /\ report_dir = NoDirectory
    /\ cell_ids = <<>>
    /\ cell = 0
    /\ NoDerived
    /\ NoPage
    /\ partials = {}

mergeFrame ==
    <<error, epsilons, dfVars, matrixVars, callVars, support, reportInputs,
      report_dir, pageVars>>

cellsFrame == <<mergeFrame, partials>>

\* the cell ids, the timeline and the deepest depth bin of every cell
DeriveContext ==
    /\ pc = "start"
    /\ cell_ids' = build_geojson_h3(context_df)
    /\ timeline' = build_timeline(context_df)
    /\ cell_depths' = build_cell_depths(context_df, cell_ids')
    /\ pc' = "compute_mixtures"
    /\ UNCHANGED <<cellsFrame, mixtures_df, cell, occupancy_df, minimums>>

\* all mixtures are computed before they are split by cell
MixturesForCells ==
    /\ pc = "compute_mixtures"
    /\ mixtures_df' = compute_mixtures(model_df, reference_model_df, epsilons)
    /\ pc' = "build_occupancy"
    /\ UNCHANGED <<cellsFrame, cell_ids, cell, derivedVars>>

\* the occupancy table of the cell the loop is at
BuildOccupancy ==
    /\ pc = "build_occupancy"
    /\ occupancy_df' =
          build_occupancy(
              CellRows(MixtureRows(mixtures_df, context_df, cell_ids), cell),
              timeline, DepthBins(context_df))
    /\ pc' = "build_minimums"
    /\ UNCHANGED <<cellsFrame, mixtures_df, cell_ids, cell, timeline,
                   cell_depths, minimums>>

\* the minimums of the cell the loop is at, added to those of the cells
\* before it; the loop goes on to the next cell
BuildMinimums ==
    /\ pc = "build_minimums"
    /\ minimums' =
          build_minimums(
              CellRows(MixtureRows(mixtures_df, context_df, cell_ids), cell),
              minimums)
    /\ cell' = cell + 1
    /\ pc' = IF cell + 1 < Len(cell_ids) THEN "build_occupancy" ELSE "done"
    /\ UNCHANGED <<cellsFrame, mixtures_df, cell_ids, timeline, cell_depths,
                   occupancy_df>>

NextCells ==
    \/ DeriveContext
    \/ MixturesForCells
    \/ BuildOccupancy
    \/ BuildMinimums

SpecCells == InitCells /\ [][NextCells]_vars


\* ------------------------------------ claims on the cells of a report
\* the rows of the context that lie in a cell
ContextRowsIn(c) ==
    { i \in 1..Len(context_df) :
          CellIdOf(cell_ids, context_df[i].h3_index) = c }

\* the mixture probability the member of epsilon eps gives, in cell c at
\* datetime dt, to depth bin bin: the probabilities found, none or one
ProbabilitiesAt(c, dt, bin, eps) ==
    { mixtures_df[<<context_df[i].decision, context_df[i].choice, eps>>] :
          i \in { j \in ContextRowsIn(c) :
                    /\ context_df[j].datetime = dt
                    /\ context_df[j].depth_bin = bin } }

\* C14: the occupancy table of a cell has one row per datetime of the
\* timeline and mixture_member_count x depth_bin_count columns, and the
\* value of member m and depth bin d (positions from 0 in the sorted
\* epsilons and the sorted depth bins) is in column m * depth_bin_count + d.
C14_OccupancyColumns ==
    pc = "build_minimums" =>
        LET bins == DepthBins(context_df)
            nb == Len(bins)
        IN  /\ Len(occupancy_df) = Len(timeline)
            /\ \A t \in 1..Len(timeline) :
                  /\ Len(occupancy_df[t]) = Len(epsilons) * nb
                  /\ \A m \in 0..(Len(epsilons) - 1) : \A d \in 0..(nb - 1) :
                        LET ps == ProbabilitiesAt(cell, timeline[t],
                                                  bins[d + 1],
                                                  epsilons[m + 1])
                        IN  /\ ps # {} =>
                                  ps = { occupancy_df[t][m * nb + d + 1] }
                            /\ ps = {} =>
                                  occupancy_df[t][m * nb + d + 1] = Null

\* a table of three members by two depth bins: its first row holds the
\* reference (0.5, 0.5), the even blend and the hypothesis (0.75, 0.25)
C14_Witness ==
    /\ pc = "build_minimums"
    /\ Len(epsilons) = 3
    /\ occupancy_df[1] =
          << Rat(1, 2), Rat(1, 2), Rat(5, 8), Rat(3, 8), Rat(3, 4),
             Rat(1, 4) >>

\* C15: in the occupancy table of a cell, every column of a depth bin
\* deeper than the cell's deepest depth bin is null in every row, for
\* every member.
C15_DeeperColumnsNull ==
    pc = "build_minimums" =>
        LET bins == DepthBins(context_df)
            nb == Len(bins)
        IN  \A d \in 0..(nb - 1) :
                bins[d + 1] > cell_depths[cell] =>
                    \A t \in 1..Len(occupancy_df) :
                        \A m \in 0..(Len(epsilons) - 1) :
                            occupancy_df[t][m * nb + d + 1] = Null

\* a cell with the shallow depth bin only, next to a deeper cell with a
\* row at the same datetime: its columns of the deep bin are null
C15_Witness ==
    /\ pc = "build_minimums"
    /\ Len(cell_ids) = 2
    /\ cell_depths[cell] = 10
    /\ DepthBins(context_df) = <<10, 20>>
    /\ Len(timeline) = 1
    /\ occupancy_df[1][1] # Null
    /\ occupancy_df[1][2] = Null

\* the probabilities the member of epsilon = 1 gives, in the cells the loop
\* has done, to the rows of a cell, depth bin, stored month and hour
HypothesisProbabilities(k, h) ==
    IF \A i \in 1..Len(epsilons) : epsilons[i] # One THEN {}
    ELSE { mixtures_df[<<context_df[i].decision, context_df[i].choice,
                         One>>] :
              i \in { j \in ContextRowsIn(k[1]) :
                        /\ k[1] < cell
                        /\ context_df[j].depth_bin = k[2]
                        /\ MonthKey(context_df[j].datetime) = k[3]
                        /\ HourOf(context_df[j].datetime) = h } }

\* C16: every minimums array has 24 entries, and the entry of hour h of a
\* (cell, depth bin, month) is the least probability among the rows of the
\* member of epsilon = 1 in that cell, depth bin, month and hour; rows of
\* another epsilon never count.
C16_TrueMinimums ==
    pc \in { "build_occupancy", "done" } =>
        /\ \A c \in 0..(cell - 1) : \A i \in ContextRowsIn(c) :
              (\E e \in 1..Len(epsilons) : epsilons[e] = One) =>
                  <<c, context_df[i].depth_bin,
                    MonthKey(context_df[i].datetime)>> \in DOMAIN minimums
        /\ \A k \in DOMAIN minimums :
              /\ Len(minimums[k]) = 24
              /\ \A h \in 0..23 :
                    LET ps == HypothesisProbabilities(k, h)
                    IN  /\ ps # {} => minimums[k][h + 1] = RatMin(ps)
                        /\ ps = {} => minimums[k][h + 1] = Null

\* two datetimes of a cell fall in the same month and hour: the entry is
\* the lesser of their hypothesis probabilities, 0.25, though the reference
\* and the even blend give less or more
C16_Witness ==
    /\ pc = "done"
    /\ Len(epsilons) = 3
    /\ Len(cell_ids) = 1
    /\ Len(timeline) = 2
    /\ \E k \in DOMAIN minimums :
          /\ HypothesisProbabilities(k, 6) = { Rat(1, 4), Rat(3, 4) }
          /\ minimums[k][7] = Rat(1, 4)

\* C17 as stated: every month key of the minimums is in 1..12, January
\* being 1, and no key is 0.
C17_MonthKeysFromOne ==
    \A k \in DOMAIN minimums :
        /\ k[3] \in 1..12
        /\ \E i \in 1..Len(context_df) : context_df[i].datetime[1] = k[3]

\* ------------------------- the minimums of the cells, built apart, merged
\* the lesser of two entries of an hour; null where neither has a value
MinOrNull(a, b) ==
    IF a = Null THEN b ELSE IF b = Null THEN a
    ELSE IF RatLess(b, a) THEN b ELSE a

\* the merge keeps the keys of the first summary only
Merge_FirstOnly(m1, m2) == m1

\* the merge of two partial minimums: the keys of both, and hour by hour the
\* lesser entry under a key both have
Merge(m1, m2) ==
    [k \in (DOMAIN m1) \cup (DOMAIN m2) |->
        IF k \in DOMAIN m1 /\ k \in DOMAIN m2
        THEN [i \in 1..24 |-> MinOrNull(m1[k][i], m2[k][i])]
        ELSE IF k \in DOMAIN m1 THEN m1[k] ELSE m2[k]]

\* the h3 index of the i-th cell
MergeH3(i) == <<8, 8, i>>

MergeCases ==
    { [choices |-> <<1, 2>>, model |-> <<Rat(3, 4), Rat(1, 4)>>,
       reference |-> <<Rat(1, 2), Rat(1, 2)>>],
      [choices |-> <<1>>, model |-> <<Rat(1, 1)>>,
       reference |-> <<Rat(1, 1)>>] }

MergeDatetimes == { <<1, 15, 6>>, <<2, 1, 0>> }

\* a report of up to MaxParts cells, a decision in each
InitMerge ==
    /\ pc = "start"
    /\ error = None
    /\ epsilons \in DepthEpsilons
    /\ \E n \in 1..MaxParts :
          \E cases \in [1..n -> MergeCases] :
             \E when \in [1..n -> MergeDatetimes] :
                LET place == [i \in 1..n |-> <<MergeH3(i), when[i]>>]
                IN  /\ model_df = ModelDf(cases)
                    /\ reference_model_df = ReferenceDf(cases)
                    /\ context_df = ContextOf(cases, place, n)
    /\ selections_df = {}
    /\ NoMatrices
    /\ NoLikelihoodCall
    /\ support = <<>>
    /\ mixtures_df = EmptyDf
    /\ meta_data = {}
    /\ model_actuals_df = EmptyDf
    /\ reference_model_actuals_df = EmptyDf
    /\ selections_actuals_df = {}
    /\ existing_dir = NoDirectory
    /\ report_dir = NoDirectory
    /\ cell_ids = <<>>
    /\ cell = 0
    /\ NoDerived
    /\ NoPage
    /\ partials = {}

\* the cells that have a partial result, alone or merged
CellsBuilt == UNION { g.cells : g \in partials }

\* a worker builds the minimums of one cell from nothing
BuildPartial ==
    /\ pc \notin {"start", "compute_mixtures"}
    /\ \E c \in (0..(Len(cell_ids) - 1)) \ CellsBuilt :
          partials' = partials \cup
              { [cells |-> {c},
                 minimums |->
                     build_minimums(
                         CellRows(MixtureRows(mixtures_df, context_df,
                                              cell_ids), c),
                         <<>>)] }
    /\ UNCHANGED <<pc, mergeFrame, mixtures_df, cell_ids, cell, derivedVars>>

\* the reduce: two partial results, whichever, become one
Reduce ==
    /\ \E a \in partials : \E b \in partials \ {a} :
          partials' = (partials \ {a, b}) \cup
              { [cells |-> a.cells \cup b.cells,
                 minimums |-> Merge(a.minimums, b.minimums)] }
    /\ UNCHANGED <<pc, mergeFrame, mixtures_df, cell_ids, cell, derivedVars>>

NextMerge ==
    \/ DeriveContext
    \/ MixturesForCells
    \/ BuildOccupancy
    \/ BuildMinimums
    \/ BuildPartial
    \/ Reduce

SpecMerge == InitMerge /\ [][NextMerge]_vars

\* C27: the partial results of distinct groups of cells have no key in
\* common, and once the sequential loop is done and every cell has been
\* merged into one summary, in whatever order and grouping, that summary is
\* the minimums of the sequential loop.
C27_MergeOrderFree ==
    /\ \A a \in partials : \A b \in partials \ {a} :
          (DOMAIN a.minimums) \cap (DOMAIN b.minimums) = {}
    /\ pc = "done" =>
          \A g \in partials :
              g.cells = 0..(Len(cell_ids) - 1) => g.minimums = minimums

\* three cells with minimums each have been merged into one summary
C27_Witness ==
    /\ pc = "done"
    /\ Len(cell_ids) = 3
    /\ \E g \in partials :
          /\ g.cells = {0, 1, 2}
          /\ g.minimums = minimums
          /\ \A c \in g.cells : \E k \in DOMAIN g.minimums : k[1] = c

\* the cells whose rows of the cross product of decisions, choices and
\* mixture members are held
CellsMaterialised ==
    { r.cell_id : r \in MixtureRows(mixtures_df, context_df, cell_ids) }

\* C26 as stated: at any moment the cross product of decisions, choices and
\* mixture members is held for at most one cell, never for the whole
\* dataset.
C26_OneCellAtATime == Cardinality(CellsMaterialised) <= 1

\* ------------------------------------------- the depth occupancy page
\* A JavaScript value is undefined, a number, an array or an object. The
\* keys of an object are the decimal strings of integers ("10" for the depth
\* bin 10.0 and for the month 10 alike) and are written as the integers.

undefined == [type |-> "undefined"]

Num(q) == [type |-> "number", value |-> q]

Arr(items) == [type |-> "array", items |-> items]

Obj(fields) == [type |-> "object", fields |-> fields]

\* v[key]: a field of an object, an element of an array (from 0); a number
\* has no such property
Get(v, key) ==
    CASE v.type = "object" ->
             IF key \in DOMAIN v.fields THEN v.fields[key] ELSE undefined
      [] v.type = "array" ->
             IF key \in 0..(Len(v.items) - 1) THEN v.items[key + 1]
             ELSE undefined
      [] OTHER -> undefined

\* v.length
Length(v) ==
    IF v.type = "array" THEN Num(Rat(Len(v.items), 1)) ELSE undefined

\* what an if takes for true: undefined, null and 0 are not
Truthy(v) ==
    CASE v.type \in {"undefined", "null"} -> FALSE
      [] v.type = "number" -> v.value # Zero
      [] OTHER -> TRUE

\* a < b: a comparison with undefined is false
JsLess(a, b) ==
    /\ a.type = "number"
    /\ b.type = "number"
    /\ RatLess(a.value, b.value)

Infinity == <<1, 0>>

\* Math.min of the least so far and a number
MathMin(a, b) == IF RatLess(b, a) THEN b ELSE a

\* Object.keys
Keys(v) == DOMAIN v.fields

\* loadGlobalData: of the minimums served, each cell keeps what is under its
\* deepest depth bin, when there is something there
loadGlobalData(raw, depths) ==
    LET kept == { cellId \in Keys(raw) :
                      Truthy(Get(Get(raw, cellId), depths[cellId])) }
    IN  Obj([cellId \in kept |-> Get(Get(raw, cellId), depths[cellId])])

\* the loop over the selected hours
RECURSIVE OverHours(_, _, _, _)
OverHours(hourArray, hours, j, minValue) ==
    IF j > Len(hours) THEN minValue
    ELSE OverHours(hourArray, hours, j + 1,
             IF JsLess(Num(Rat(hours[j], 1)), Length(hourArray))
             THEN MathMin(minValue, Get(hourArray, hours[j]).value)
             ELSE minValue)

\* the loop over the selected months
RECURSIVE OverMonths(_, _, _, _, _)
OverMonths(monthData, months, hours, i, minValue) ==
    IF i > Len(months) THEN minValue
    ELSE LET hourArray == Get(monthData, months[i])
         IN  OverMonths(monthData, months, hours, i + 1,
                 IF ~Truthy(hourArray) THEN minValue
                 ELSE OverHours(hourArray, hours, 1, minValue))

\* calculateFilteredMinimums(minimums, cell_depths, selectedMonths,
\* selectedHours): monthData is what the cell's entry holds under the key of
\* its depth bin; a cell without it is skipped
calculateFilteredMinimums(mins, depths, months, hours) ==
    LET monthData(cellId) == Get(Get(mins, cellId), depths[cellId])
        cells == { cellId \in Keys(mins) : Truthy(monthData(cellId)) }
    IN  [cellId \in cells |->
            LET minValue ==
                    OverMonths(monthData(cellId), months, hours, 1, Infinity)
            IN  IF minValue = Infinity THEN Zero ELSE minValue]

\* a string is the sequence of its characters
DigitChars == <<"0", "1", "2", "3", "4", "5", "6", "7", "8", "9">>

IsDigit(ch) == \E d \in 1..Len(DigitChars) : DigitChars[d] = ch

DigitValue(ch) == (CHOOSE d \in 1..Len(DigitChars) : DigitChars[d] = ch) - 1

\* str.split(','): the pieces between the commas, the empty ones too
RECURSIVE Split(_)
Split(str) ==
    IF \A k \in 1..Len(str) : str[k] # ","
    THEN <<str>>
    ELSE LET k == CHOOSE k \in 1..Len(str) :
                      /\ str[k] = ","
                      /\ \A j \in 1..(k - 1) : str[j] # ","
         IN  <<SubSeq(str, 1, k - 1)>> \o Split(SubSeq(str, k + 1, Len(str)))

NaN == [isNaN |-> TRUE]

\* the number the leading digits of str spell
RECURSIVE LeadingDigits(_, _, _)
LeadingDigits(str, k, n) ==
    IF k > Len(str) \/ ~IsDigit(str[k]) THEN n
    ELSE LeadingDigits(str, k + 1, 10 * n + DigitValue(str[k]))

\* parseInt(str, 10): a sign and the digits after it, up to the first
\* character that is not a digit; NaN when there is no digit there
parseInt(str) ==
    LET signed == str # <<>> /\ str[1] \in {"-", "+"}
        digits == IF signed THEN Tail(str) ELSE str
    IN  IF digits = <<>> \/ ~IsDigit(digits[1]) THEN NaN
        ELSE [isNaN |-> FALSE,
              value |-> (IF signed /\ str[1] = "-" THEN -1 ELSE 1)
                            * LeadingDigits(digits, 1, 0)]

\* String(n) of an integer
RECURSIVE String(_)
String(n) ==
    IF n < 0 THEN <<"-">> \o String(-n)
    ELSE IF n < 10 THEN <<DigitChars[n + 1]>>
    ELSE String(n \div 10) \o <<DigitChars[(n % 10) + 1]>>

\* searchParams.get(name) is a string that is not empty
Present(params, name) == name \in DOMAIN params /\ params[name] # <<>>

\* the numbers of a comma separated list that parse and lie in lo..hi, in
\* the order of the list; <<>> stands for null
RECURSIVE InRange(_, _, _)
InRange(tokens, lo, hi) ==
    IF tokens = <<>> THEN <<>>
    ELSE LET n == parseInt(Head(tokens))
             rest == InRange(Tail(tokens), lo, hi)
         IN  IF ~n.isNaN /\ n.value >= lo /\ n.value <= hi
             THEN <<n.value>> \o rest
             ELSE rest

\* parseUrlParams(searchParams); <<>> stands for null
parseUrlParams(params) ==
    [months |-> IF Present(params, "months")
                THEN InRange(Split(params.months), 1, 12) ELSE <<>>,
     hours |-> IF Present(params, "hours")
               THEN InRange(Split(params.hours), 0, 23) ELSE <<>>,
     cell_id |-> IF Present(params, "cell_id")
                    /\ ~parseInt(params.cell_id).isNaN
                 THEN String(parseInt(params.cell_id).value) ELSE <<>>]

DEFAULT_MONTHS == <<1, 2, 3, 4>>

DEFAULT_HOURS == <<6, 7, 8, 9, 10, 11, 12, 13, 14, 15, 16, 17, 18>>

\* the first cell of the features of the geometries; <<>> stands for null
defaultCell(features) ==
    IF Len(features) > 0 THEN String(features[1]) ELSE <<>>

\* -------------------------------------------------- what the page is given
\* the minimums of a month: one value at an hour, another at the other hours
DayArray(at, lo, hi) ==
    Arr([h \in 1..24 |-> Num(IF h - 1 = at THEN lo ELSE hi)])

PageArrays ==
    { DayArray(6, Rat(1, 4), Rat(1, 2)), DayArray(20, Zero, Rat(3, 4)) }

\* the months a cell has minimums for: October has the key of the depth
\* bin 10.0
PageMonths == { {1}, {10}, {1, 10} }

PageDepthBins == {10, 20}

\* the deepest depth bin of a cell; nothing is served under 30
DeepestBins == {10, 20, 30}

MonthMaps == UNION { [M -> PageArrays] : M \in PageMonths }

\* the bins above the deepest hold a probability of 1 at every hour
ShallowMap == [m \in {1, 10} |-> DayArray(0, One, One)]

\* what minimums.json holds of a cell
CellMinimums(deepest, monthMap) ==
    Obj([d \in PageDepthBins |->
            Obj(IF d = deepest THEN monthMap ELSE ShallowMap)])

\* the string of a list of tokens, a comma between two
RECURSIVE Join(_)
Join(tokens) ==
    IF Len(tokens) = 1 THEN tokens[1]
    ELSE tokens[1] \o <<",">> \o Join(Tail(tokens))

\* the queries the page is opened with over the scenarios served
PageQueries ==
    { <<>>,
      [months |-> <<"1">>, hours |-> <<"6">>],
      [months |-> <<"1", ",", "1", "0">>, hours |-> <<"6", ",", "2", "0">>],
      [months |-> <<"1", "0">>, hours |-> <<"2", "0">>, cell_id |-> <<"0">>] }

\* a value of a list of the URL: 3, 13, -1, and what is no number
UrlTokens == { <<"3">>, <<"1", "3">>, <<"-", "1">>, <<"3", "a">>, <<"a">> }

UrlLists ==
    { Join(t) : t \in UNION { [1..n -> UrlTokens] : n \in 1..MaxTokens } }

\* a query with one parameter, a list of values or the id of a cell, or
\* with all three of one value each, or with none
UrlQueries ==
    { [months |-> m] : m \in UrlLists }
        \cup { [hours |-> h] : h \in UrlLists }
        \cup { [cell_id |-> c] : c \in UrlTokens }
        \cup { [months |-> m, hours |-> h, cell_id |-> c] :
                   m \in UrlTokens, h \in UrlTokens, c \in UrlTokens }
        \cup { <<>> }

\* a scenario is served and a URL opened; the page shows its defaults
InitPage ==
    /\ pc = "start"
    /\ error = None
    /\ epsilons = <<>>
    /\ NoDataframes
    /\ NoMatrices
    /\ NoLikelihoodCall
    /\ support = <<>>
    /\ mixtures_df = EmptyDf
    /\ meta_data = {}
    /\ context_df = EmptyDf
    /\ model_actuals_df = EmptyDf
    /\ reference_model_actuals_df = EmptyDf
    /\ selections_actuals_df = {}
    /\ existing_dir = NoDirectory
    /\ report_dir = NoDirectory
    /\ cell_ids = <<>>
    /\ cell = 0
    /\ timeline = <<>>
    /\ occupancy_df = <<>>
    /\ minimums = null
    /\ selectedMonths = DEFAULT_MONTHS
    /\ selectedHours = DEFAULT_HOURS
    /\ selectedCells = <<>>
    /\ filtered_minimums = <<>>
    /\ NoSession
    /\ partials = {}
    /\ \/ \E n \in 1..MaxCells :
             \E deepest \in [0..(n - 1) -> DeepestBins] :
                \E maps \in [0..(n - 1) -> MonthMaps] :
                   /\ cell_depths = deepest
                   /\ minimumsRaw =
                          Obj([c \in 0..(n - 1) |->
                                  CellMinimums(deepest[c], maps[c])])
                   /\ geometries = [k \in 1..n |-> k - 1]
                   /\ searchParams \in PageQueries
       \/ /\ \E features \in { <<>>, <<1, 0>> } :
                /\ geometries = features
                /\ cell_depths = [c \in 0..(Len(features) - 1) |-> 20]
                /\ minimumsRaw =
                       Obj([c \in 0..(Len(features) - 1) |->
                               CellMinimums(20, ShallowMap)])
          /\ searchParams \in UrlQueries

pageFrame ==
    <<error, engineVars, reportInputs, report_dir, cell_ids, cell, timeline,
      occupancy_df, cell_depths, searchParams, geometries, minimumsRaw,
      sessionVars, partials>>

\* the page mounts: the global data is loaded and the selections are taken
\* from the URL or from the defaults
LoadData ==
    /\ pc = "start"
    /\ minimums' = loadGlobalData(minimumsRaw, cell_depths)
    /\ LET urlParams == parseUrlParams(searchParams)
           picked == IF urlParams.cell_id # <<>> THEN urlParams.cell_id
                     ELSE defaultCell(geometries)
       IN  /\ selectedMonths' = IF urlParams.months # <<>>
                                THEN urlParams.months ELSE DEFAULT_MONTHS
           /\ selectedHours' = IF urlParams.hours # <<>>
                               THEN urlParams.hours ELSE DEFAULT_HOURS
           /\ selectedCells' = IF picked # <<>> THEN <<picked>>
                               ELSE selectedCells
    /\ pc' = "loadData"
    /\ UNCHANGED <<pageFrame, filtered_minimums>>

\* the effect that follows a change of the minimums or of the selections
UpdateFilteredMinimums ==
    /\ pc = "loadData"
    /\ filtered_minimums' =
           calculateFilteredMinimums(minimums, cell_depths, selectedMonths,
                                     selectedHours)
    /\ pc' = "calculateFilteredMinimums"
    /\ UNCHANGED <<pageFrame, minimums, selectedMonths, selectedHours,
                   selectedCells>>

NextPage == LoadData \/ UpdateFilteredMinimums

SpecPage == InitPage /\ [][NextPage]_vars

\* the hourly minimums the API served under the deepest depth bin of a
\* cell, at the selected hours of the selected months it has
DeepestValues(cellId) ==
    LET monthData == Get(Get(minimumsRaw, cellId), cell_depths[cellId])
    IN  { Get(Get(monthData, selectedMonths[i]), selectedHours[j]).value :
              i \in { i \in 1..Len(selectedMonths) :
                          Get(monthData, selectedMonths[i]).type = "array" },
              j \in 1..Len(selectedHours) }

\* C19 as stated: once calculateFilteredMinimums has run, every cell of the
\* minimums the page holds has a value, the least of the hourly minimums of
\* its deepest depth bin over the selected months and the selected hours.
C19_MinimumOfDeepestBin ==
    pc = "calculateFilteredMinimums" =>
        \A cellId \in Keys(minimums) :
            DeepestValues(cellId) # {} =>
                /\ cellId \in DOMAIN filtered_minimums
                /\ filtered_minimums[cellId] = RatMin(DeepestValues(cellId))

\* a string that spells an integer: digits, after a minus sign or not
SpellsInteger(str) ==
    LET digits == IF str # <<>> /\ str[1] = "-" THEN Tail(str) ELSE str
    IN  /\ digits # <<>>
        /\ \A k \in 1..Len(digits) : IsDigit(digits[k])

\* the parameter is in the URL and every value of its list is an integer
\* of lo..hi
ValidList(name, lo, hi) ==
    /\ Present(searchParams, name)
    /\ LET tokens == Split(searchParams[name])
       IN  \A k \in 1..Len(tokens) :
               /\ SpellsInteger(tokens[k])
               /\ parseInt(tokens[k]).value \in lo..hi

\* the integers of the list of a parameter
ListValues(name) ==
    LET tokens == Split(searchParams[name])
    IN  [k \in 1..Len(tokens) |-> parseInt(tokens[k]).value]

\* C20 as stated: after the initial load the months, the hours and the cell
\* are those of the URL where the parameter is there and valid (months of
\* 1..12, hours of 0..23, an integer cell id) and the defaults otherwise
\* (months 1-4, hours 6-18, the first cell of the features); a value that is
\* out of range or malformed is never applied.
C20_UrlOrDefault ==
    pc = "loadData" =>
        /\ selectedMonths = IF ValidList("months", 1, 12)
                            THEN ListValues("months") ELSE DEFAULT_MONTHS
        /\ selectedHours = IF ValidList("hours", 0, 23)
                           THEN ListValues("hours") ELSE DEFAULT_HOURS
        /\ selectedCells =
               IF Present(searchParams, "cell_id")
                  /\ SpellsInteger(searchParams.cell_id)
               THEN <<String(parseInt(searchParams.cell_id).value)>>
               ELSE IF geometries # <<>> THEN <<String(geometries[1])>>
               ELSE <<>>

\* ------------------------------------------ the widgets of the page
\* array.includes(x)
includes(array, x) == \E k \in 1..Len(array) : array[k] = x

\* array.filter(i => i !== x)
RECURSIVE without(_, _)
without(array, x) ==
    IF array = <<>> THEN <<>>
    ELSE IF Head(array) = x THEN without(Tail(array), x)
    ELSE <<Head(array)>> \o without(Tail(array), x)

RECURSIVE InsertNumber(_, _)
InsertNumber(x, t) ==
    IF t = <<>> THEN <<x>>
    ELSE IF Head(t) <= x THEN <<Head(t)>> \o InsertNumber(x, Tail(t))
    ELSE <<x>> \o t

\* array.sort((a, b) => a - b)
RECURSIVE sort(_)
sort(array) ==
    IF array = <<>> THEN <<>>
    ELSE InsertNumber(Head(array), sort(Tail(array)))

\* CheckBoxPicker.handleClick(index): what is passed to setSelected
handleClick(selected, index) ==
    IF includes(selected, index)
    THEN sort(without(selected, index))
    ELSE sort(selected \o <<index>>)

\* MonthPicker: the months 1-12 are the boxes 0-11
MonthPickerClick(months, index) ==
    LET selected == [k \in 1..Len(months) |-> months[k] - 1]
        indices == handleClick(selected, index)
    IN  [k \in 1..Len(indices) |-> indices[k] + 1]

\* HourPicker: the hours are the boxes
HourPickerClick(hours, index) == handleClick(hours, index)

\* the click adds the cell to those selected or takes it out of them
handleCellClick_Multi(cells, cellId) ==
    IF includes(cells, cellId) THEN without(cells, cellId)
    ELSE cells \o <<cellId>>

\* CellMap.handleCellClick(cellId) with allowMultiSelect=false
handleCellClick(cells, cellId) ==
    IF includes(cells, cellId) THEN <<>> ELSE <<cellId>>

\* ------------------------------------------ the helpers of a visit
\* new Date(timestamp).getMonth() + 1
MonthOfTimestamp(timestamp) == timestamp[1]

\* filterByMonth(timestamps, selectedMonths, occupancy_data): the
\* filtered_timestamps of what it returns
filterByMonth(stamps, months) ==
    SelectSeq(stamps, LAMBDA t : includes(months, MonthOfTimestamp(t)))

\* buildHighlightIndices(filtered_timestamps, selectedHours): the positions,
\* from 0, of the timestamps at a selected hour
RECURSIVE buildHighlightIndices(_, _)
buildHighlightIndices(stamps, hours) ==
    IF stamps = <<>> THEN <<>>
    ELSE LET n == Len(stamps)
             before == buildHighlightIndices(SubSeq(stamps, 1, n - 1), hours)
         IN  IF includes(hours, HourOf(stamps[n]))
             THEN before \o <<n - 1>> ELSE before

\* object[key], the key a string: the keys of the depths are cell ids
AtKey(object, key) ==
    IF \E k \in DOMAIN object : String(k) = key
    THEN Num(Rat(object[CHOOSE k \in DOMAIN object : String(k) = key], 1))
    ELSE undefined

\* what the API serves at /occupancy for a cell and a depth bin
OccupancyServed(cellId, depthBin) == [cell_id |-> cellId, depth_bin |-> depthBin]

\* loadOccupancy(scenarioId, cellId, cell_depths, occupancy_data) up to its
\* await: nothing is asked for a cell the object holds; the request of
\* another cell waits for its answer, which is for the object it was given
\* (held is what the object holds, into is the object)
loadOccupancy(cellId, depths, held, into, id) ==
    IF cellId \in DOMAIN held THEN {}
    ELSE { [id |-> id, cellId |-> cellId,
            depth_bin |-> AtKey(depths, cellId), into |-> into] }

\* the answer is stored in place of what the object held
Answered_Alone(request) ==
    (request.cellId :> OccupancyServed(request.cellId, request.depth_bin))

\* occupancy_data[cellId] = response.data
Answered(request) ==
    (request.cellId :> OccupancyServed(request.cellId, request.depth_bin))
        @@ request.into

Str(chars) == [type |-> "string", chars |-> chars]

\* array.join(',')
join(array) ==
    IF Len(array.items) = 0 THEN <<>>
    ELSE Join([k \in 1..Len(array.items) |-> String(array.items[k])])

\* `${value}`, and the key a value is as a property of an object
TemplateString(v) ==
    CASE v.type = "string" -> v.chars
      [] v.type = "number" -> String(v.value[1])
      [] OTHER -> <<"u", "n", "d", "e", "f", "i", "n", "e", "d">>

\* updateUrlParams(navigate, scenarioId, months, hours, cellId): the query
\* navigate is called with; join is a method of arrays only, and navigate
\* has to be a function
updateUrlParams(navigate, scenarioId, months, hours, cellId) ==
    IF months.type # "array" \/ hours.type # "array"
           \/ navigate.type # "function"
    THEN [threw |-> TRUE]
    ELSE [threw |-> FALSE,
          query |-> [months |-> join(months), hours |-> join(hours),
                     cell_id |-> TemplateString(cellId)]]

\* the parameter at a position of a call: undefined past the arguments
Argument(args, k) == IF k <= Len(args) THEN args[k] ELSE undefined

\* debounce(fn, wait): a call replaces the call that waits
debounce(waiting, args) == [args |-> args]

\* ------------------------------------------ a visit of the page
\* the state of the component that its effects read and set
Rendered ==
    [selectedMonths |-> selectedMonths, selectedHours |-> selectedHours,
     selectedCells |-> selectedCells, filtered_minimums |-> filtered_minimums,
     occupancy_data |-> occupancy_data, requests |-> requests,
     issued |-> issued, loadError |-> loadError,
     isLoadingOccupancy |-> isLoadingOccupancy,
     filtered_timestamps |-> filtered_timestamps,
     highlight_indices |-> highlight_indices, url_timer |-> url_timer]

\* the effects of one render, each run when one of its dependencies was set
\* since the render before: the state they leave, and what they set. data is
\* the global data of the render.
Effects(s, data, changed) ==
    LET ran(deps) == deps \cap changed # {}
        loaded == data.minimums # null
        minimumsRan ==
            /\ ran({"minimums", "cell_depths", "selectedMonths",
                    "selectedHours"})
            /\ loaded
        filterRan ==
            /\ ran({"timestamps", "selectedMonths", "occupancy_data"})
            /\ loaded
            /\ DOMAIN s.occupancy_data # {}
        highlightRan ==
            /\ ran({"filtered_timestamps", "selectedHours"})
            /\ Len(s.filtered_timestamps) > 0
        loadCellData ==
            /\ ran({"selectedCells", "cell_depths", "occupancy_data"})
            /\ Len(s.selectedCells) > 0
            /\ loaded
            /\ s.selectedCells[1] \notin DOMAIN s.occupancy_data
        asked ==
            IF loadCellData
            THEN loadOccupancy(s.selectedCells[1], data.cell_depths,
                               s.occupancy_data, s.occupancy_data,
                               s.issued + 1)
            ELSE {}
        urlRan ==
            /\ ran({"selectedMonths", "selectedHours", "selectedCells",
                    "isLoadingGlobal"})
            /\ Len(s.selectedCells) > 0
            /\ loaded
    IN  [state |->
            [s EXCEPT
               !.filtered_minimums =
                   IF minimumsRan
                   THEN calculateFilteredMinimums(data.minimums,
                            data.cell_depths, s.selectedMonths,
                            s.selectedHours)
                   ELSE @,
               !.filtered_timestamps =
                   IF filterRan
                   THEN filterByMonth(data.timestamps, s.selectedMonths)
                   ELSE @,
               !.highlight_indices =
                   IF highlightRan
                   THEN buildHighlightIndices(s.filtered_timestamps,
                                              s.selectedHours)
                   ELSE @,
               !.requests = @ \cup asked,
               !.issued = @ + Cardinality(asked),
               !.isLoadingOccupancy = IF loadCellData THEN TRUE ELSE @,
               !.loadError = IF loadCellData THEN null ELSE @,
               !.url_timer =
                   IF urlRan
                   THEN debounce(@, <<Str(<<"s">>), Arr(s.selectedMonths),
                                      Arr(s.selectedHours),
                                      Str(s.selectedCells[1])>>)
                   ELSE @],
         changed |-> IF filterRan THEN {"filtered_timestamps"} ELSE {}]

\* render, run the effects, and again until an effect sets nothing
RECURSIVE Settle(_, _, _)
Settle(s, data, changed) ==
    IF changed = {} THEN s
    ELSE LET after == Effects(s, data, changed)
         IN  Settle(after.state, data, after.changed)

\* the component is left in a state
Commit(s) ==
    /\ selectedMonths' = s.selectedMonths
    /\ selectedHours' = s.selectedHours
    /\ selectedCells' = s.selectedCells
    /\ filtered_minimums' = s.filtered_minimums
    /\ occupancy_data' = s.occupancy_data
    /\ requests' = s.requests
    /\ issued' = s.issued
    /\ loadError' = s.loadError
    /\ isLoadingOccupancy' = s.isLoadingOccupancy
    /\ filtered_timestamps' = s.filtered_timestamps
    /\ highlight_indices' = s.highlight_indices
    /\ url_timer' = s.url_timer

\* the global data of the render
GlobalData ==
    [minimums |-> minimums, cell_depths |-> cell_depths,
     timestamps |-> timestamps]

\* the timestamps of the report visited: two of January, one of February
SessionTimeline == << <<1, 15, 6>>, <<1, 15, 20>>, <<2, 1, 6>> >>

\* the queries the page is opened with
SessionQueries ==
    { <<>>,
      [months |-> <<"3", ",", "3">>],
      [months |-> <<"2">>, hours |-> <<"6">>, cell_id |-> <<"1">>] }

\* the boxes clicked: January, February and March; 6 and 20 o'clock
ClickedMonths == {0, 1, 2}

ClickedHours == {6, 20}

InitSession ==
    /\ pc = "start"
    /\ error = None
    /\ epsilons = <<>>
    /\ NoDataframes
    /\ NoMatrices
    /\ NoLikelihoodCall
    /\ support = <<>>
    /\ mixtures_df = EmptyDf
    /\ meta_data = {}
    /\ context_df = EmptyDf
    /\ model_actuals_df = EmptyDf
    /\ reference_model_actuals_df = EmptyDf
    /\ selections_actuals_df = {}
    /\ existing_dir = NoDirectory
    /\ report_dir = NoDirectory
    /\ cell_ids = <<>>
    /\ cell = 0
    /\ timeline = <<>>
    /\ occupancy_df = <<>>
    /\ partials = {}
    /\ geometries = <<0, 1>>
    /\ cell_depths = (0 :> 10 @@ 1 :> 20)
    /\ minimumsRaw =
           Obj([c \in {0, 1} |->
                   CellMinimums(cell_depths[c],
                       [m \in {1} |-> DayArray(6, Rat(1, 4), Rat(1, 2))])])
    /\ timestamps = SessionTimeline
    /\ searchParams \in SessionQueries
    /\ minimums = null
    /\ selectedMonths = DEFAULT_MONTHS
    /\ selectedHours = DEFAULT_HOURS
    /\ selectedCells = <<>>
    /\ filtered_minimums = <<>>
    /\ occupancy_data = <<>>
    /\ requests = {}
    /\ issued = 0
    /\ loadError = null
    /\ isLoadingOccupancy = FALSE
    /\ NoFrontend
    /\ filtered_timestamps = <<>>
    /\ highlight_indices = <<>>
    /\ url_timer = null
    /\ globalLoads = 0
    /\ events = 0

frontendVars == <<objects, occupancyData, occupancyError, retried>>

sessionFrame ==
    <<error, engineVars, reportInputs, report_dir, cell_ids, cell, timeline,
      occupancy_df, cell_depths, geometries, minimumsRaw, timestamps,
      frontendVars, partials>>

\* the page mounts and loadData has its answer: the global data and the
\* selections are set in one render, and the effects follow
OpenPage ==
    /\ pc = "start"
    /\ minimums' = loadGlobalData(minimumsRaw, cell_depths)
    /\ globalLoads' = globalLoads + 1
    /\ LET urlParams == parseUrlParams(searchParams)
           picked == IF urlParams.cell_id # <<>> THEN urlParams.cell_id
                     ELSE defaultCell(geometries)
           set == [Rendered EXCEPT
                     !.selectedMonths = IF urlParams.months # <<>>
                                        THEN urlParams.months
                                        ELSE DEFAULT_MONTHS,
                     !.selectedHours = IF urlParams.hours # <<>>
                                       THEN urlParams.hours
                                       ELSE DEFAULT_HOURS,
                     !.selectedCells = IF picked # <<>> THEN <<picked>>
                                       ELSE @,
                     !.loadError = null]
       IN  Commit(Settle(set,
                         [minimums |-> minimums', cell_depths |-> cell_depths,
                          timestamps |-> timestamps],
                         {"minimums", "cell_depths", "timestamps",
                          "selectedMonths", "selectedHours", "selectedCells",
                          "isLoadingGlobal"}))
    /\ pc' = "ready"
    /\ UNCHANGED <<sessionFrame, searchParams, events>>

\* a box of the MonthPicker is clicked
ClickMonth ==
    /\ pc = "ready"
    /\ events < MaxEvents
    /\ \E index \in ClickedMonths :
          Commit(Settle([Rendered EXCEPT !.selectedMonths =
                                      MonthPickerClick(selectedMonths, index)],
                        GlobalData, {"selectedMonths"}))
    /\ events' = events + 1
    /\ UNCHANGED <<sessionFrame, pc, minimums, searchParams, globalLoads>>

\* a box of the HourPicker is clicked
ClickHour ==
    /\ pc = "ready"
    /\ events < MaxEvents
    /\ \E index \in ClickedHours :
          Commit(Settle([Rendered EXCEPT !.selectedHours =
                                      HourPickerClick(selectedHours, index)],
                        GlobalData, {"selectedHours"}))
    /\ events' = events + 1
    /\ UNCHANGED <<sessionFrame, pc, minimums, searchParams, globalLoads>>

\* a cell of the CellMap is clicked
ClickCell ==
    /\ pc = "ready"
    /\ events < MaxEvents
    /\ \E k \in 1..Len(geometries) :
          Commit(Settle([Rendered EXCEPT !.selectedCells =
                             handleCellClick(selectedCells,
                                             String(geometries[k]))],
                        GlobalData, {"selectedCells"}))
    /\ events' = events + 1
    /\ UNCHANGED <<sessionFrame, pc, minimums, searchParams, globalLoads>>

\* a request has its answer: loadOccupancy stores it in the object it was
\* given, and loadCellData sets that object as the occupancy data
OccupancyLoaded ==
    /\ pc = "ready"
    /\ \E request \in requests :
          Commit(Settle([Rendered EXCEPT
                            !.occupancy_data = Answered(request),
                            !.requests = @ \ {request},
                            !.isLoadingOccupancy = FALSE],
                        GlobalData, {"occupancy_data"}))
    /\ UNCHANGED <<sessionFrame, pc, minimums, searchParams, globalLoads,
                   events>>

\* a request fails: loadCellData sets the error
OccupancyFailed ==
    /\ pc = "ready"
    /\ \E request \in requests :
          Commit([Rendered EXCEPT
                     !.loadError = Str(request.cellId),
                     !.requests = @ \ {request},
                     !.isLoadingOccupancy = FALSE])
    /\ UNCHANGED <<sessionFrame, pc, minimums, searchParams, globalLoads,
                   events>>

\* the wait of the debounce is over: updateUrlParams is called with the
\* arguments of the call held back; when it navigates, the page has a new
\* searchParams and loadData runs again
UrlTimerFires ==
    /\ pc = "ready"
    /\ url_timer # null
    /\ LET args == url_timer.args
           call == updateUrlParams(Argument(args, 1), Argument(args, 2),
                                   Argument(args, 3), Argument(args, 4),
                                   Argument(args, 5))
       IN  /\ searchParams' = IF call.threw THEN searchParams ELSE call.query
           /\ pc' = IF call.threw THEN pc ELSE "start"
    /\ url_timer' = null
    /\ UNCHANGED <<sessionFrame, minimums, selectedMonths, selectedHours,
                   selectedCells, filtered_minimums, occupancy_data, requests,
                   issued, loadError, isLoadingOccupancy, filtered_timestamps,
                   highlight_indices, globalLoads, events>>

\* Retry under the error of the graph: window.location.reload()
handleRetry ==
    /\ pc = "ready"
    /\ events < MaxEvents
    /\ ~isLoadingOccupancy
    /\ loadError # null
    /\ Len(selectedCells) > 0
    /\ selectedCells[1] \notin DOMAIN occupancy_data
    /\ pc' = "start"
    /\ minimums' = null
    /\ selectedMonths' = DEFAULT_MONTHS
    /\ selectedHours' = DEFAULT_HOURS
    /\ selectedCells' = <<>>
    /\ filtered_minimums' = <<>>
    /\ occupancy_data' = <<>>
    /\ requests' = {}
    /\ issued' = 0
    /\ loadError' = null
    /\ isLoadingOccupancy' = FALSE
    /\ filtered_timestamps' = <<>>
    /\ highlight_indices' = <<>>
    /\ url_timer' = null
    /\ globalLoads' = 0
    /\ events' = events + 1
    /\ UNCHANGED <<sessionFrame, searchParams>>

NextSession ==
    \/ OpenPage
    \/ ClickMonth
    \/ ClickHour
    \/ ClickCell
    \/ OccupancyLoaded
    \/ OccupancyFailed
    \/ UrlTimerFires
    \/ handleRetry

SpecSession == InitSession /\ [][NextSession]_vars

\* C21: with allowMultiSelect=false a selection replaces the one before it:
\* whatever the URL, the default and the cells clicked, selectedCells never
\* holds more than one cell id.
C21_AtMostOneCell == Len(selectedCells) <= 1

\* the page was opened on the default cell and a click selected the other
C21_Witness ==
    /\ pc = "ready"
    /\ DOMAIN searchParams = {}
    /\ events >= 1
    /\ selectedCells = << <<"1">> >>

\* a click of a box did what it has to: the box changed sides, no other box
\* did, and the array set is in ascending order, no index twice
Toggled(before, after, index) ==
    /\ includes(after, index) <=> ~includes(before, index)
    /\ \A i \in 0..23 : i # index =>
          (includes(after, i) <=> includes(before, i))
    /\ \A k \in 1..(Len(after) - 1) : after[k] < after[k + 1]

\* the boxes of the selected months
MonthBoxes(months) == [k \in 1..Len(months) |-> months[k] - 1]

\* C25 as stated: a click of a box of a CheckBoxPicker toggles that index
\* in the selected array, leaves every other index as it was, and the array
\* passed to setSelected is in ascending order and holds no index twice.
C25_ClickToggles ==
    [][(pc = "ready" /\ pc' = "ready") =>
          /\ selectedHours' # selectedHours =>
                \E index \in ClickedHours :
                   Toggled(selectedHours, selectedHours', index)
          /\ selectedMonths' # selectedMonths =>
                \E index \in ClickedMonths :
                   Toggled(MonthBoxes(selectedMonths),
                           MonthBoxes(selectedMonths'), index)]_vars

\* C29 as stated: after any month and hour selection changes, every index
\* of highlight_indices is a position of the current filtered_timestamps
\* and the timestamp there is at a selected hour.
C29_HighlightsCurrent ==
    \A k \in 1..Len(highlight_indices) :
       /\ highlight_indices[k] < Len(filtered_timestamps)
       /\ includes(selectedHours,
                   HourOf(filtered_timestamps[highlight_indices[k] + 1]))

\* C28 as stated: when a cell is selected and then another before the
\* request of the first has its answer, the occupancy data holds both once
\* both have an answer: a load that finishes later never discards a cell
\* that was loaded earlier.
C28_LoadsKept ==
    [][(pc = "ready" /\ pc' = "ready") =>
          DOMAIN occupancy_data \subseteq DOMAIN occupancy_data']_vars

\* the wait of the debounce comes to its end
SpecSessionFair == SpecSession /\ WF_vars(UrlTimerFires)

\* the query of the URL is the selection
UrlMatches ==
    /\ DOMAIN searchParams = {"months", "hours", "cell_id"}
    /\ searchParams.months = join(Arr(selectedMonths))
    /\ searchParams.hours = join(Arr(selectedHours))
    /\ searchParams.cell_id = selectedCells[1]

\* C24 as stated: when the selected months, hours or cell change while a
\* cell is selected, the query of the URL is eventually the latest
\* selection; once the selections stop changing, the URL matches them.
C24_UrlFollowsSelection ==
    <>[]((pc = "ready" /\ Len(selectedCells) > 0) => UrlMatches)

\* ------------------------------------------ the page of the frontend
\* Number(token) of a token of digits; of no character it is 0
Number(token) ==
    IF token = <<>> THEN [isNaN |-> FALSE, value |-> 0]
    ELSE IF \A k \in 1..Len(token) : IsDigit(token[k]) THEN parseInt(token)
    ELSE NaN

\* split(',').map(Number).filter(n => !isNaN(n))
NumberList(chars) ==
    LET tokens == Split(chars)
        numbers == [k \in 1..Len(tokens) |-> Number(tokens[k])]
        kept == SelectSeq(numbers, LAMBDA n : ~n.isNaN)
    IN  [k \in 1..Len(kept) |-> kept[k].value]

\* parseUrlParams of the frontend: <<>> stands for null
frontendParseUrlParams(params) ==
    [months |-> IF Present(params, "months")
                THEN Arr(NumberList(params.months)) ELSE null,
     hours |-> IF Present(params, "hours")
               THEN Arr(NumberList(params.hours)) ELSE null,
     cell_id |-> IF Present(params, "cell_id")
                    /\ ~Number(params.cell_id).isNaN
                 THEN Str(params.cell_id) ELSE null]

\* a function value
navigate == [type |-> "function"]

\* the smallest of a set of cell ids: Object.keys lists them in order
FirstKey(S) == CHOOSE k \in S : \A j \in S : k <= j

\* the state of the component that its effects read and set
Frontend ==
    [selectedMonths |-> selectedMonths, selectedHours |-> selectedHours,
     selectedCells |-> selectedCells, objects |-> objects,
     occupancyData |-> occupancyData, occupancyError |-> occupancyError,
     requests |-> requests, issued |-> issued, retried |-> retried,
     searchParams |-> searchParams]

\* the effects of one render of the frontend, each run when one of its
\* dependencies was set: loadCellOccupancy, then the update of the URL. A
\* load of a cell the object holds is over at once.
FrontendEffects(f, depths, changed) ==
    LET ran(deps) == deps \cap changed # {}
        loadCellOccupancy ==
            /\ ran({"selectedCells", "cellDepths"})
            /\ Len(f.selectedCells) > 0
            /\ DOMAIN depths # {}
        cellId == TemplateString(f.selectedCells[1])
        held == f.objects[f.occupancyData]
        asked ==
            IF loadCellOccupancy
            THEN loadOccupancy(cellId, depths, held, f.occupancyData,
                               f.issued + 1)
            ELSE {}
        skipped == loadCellOccupancy /\ asked = {}
        urlRan ==
            /\ ran({"selectedMonths", "selectedHours", "selectedCells"})
            /\ Len(f.selectedCells) > 0
            /\ Len(f.selectedMonths) > 0
            /\ Len(f.selectedHours) > 0
        call == updateUrlParams(navigate, Str(<<"s">>), Arr(f.selectedMonths),
                                Arr(f.selectedHours), f.selectedCells[1])
    IN  [f EXCEPT
           !.requests = @ \cup asked,
           !.issued = @ + Cardinality(asked),
           !.retried = IF asked # {} THEN null ELSE @,
           !.objects = IF skipped THEN Append(@, held) ELSE @,
           !.occupancyData = IF skipped THEN Len(f.objects) + 1 ELSE @,
           !.occupancyError = IF skipped THEN null ELSE @,
           !.searchParams = IF urlRan /\ ~call.threw THEN call.query ELSE @]

\* the objects a reference reaches: the one the page holds, and those of
\* the requests that wait
Live(held, waiting) == {held} \cup { r.into : r \in waiting }

\* what no reference reaches is collected: nothing is kept of it
Reached(f) ==
    [f EXCEPT
       !.objects = [o \in 1..Len(@) |->
                       IF o \in Live(f.occupancyData, f.requests) THEN @[o]
                       ELSE <<>>]]

\* two queries have the same parameters
SameQuery(a, b) ==
    /\ DOMAIN a = DOMAIN b
    /\ \A name \in DOMAIN a : a[name] = b[name]

\* the frontend is left in a state; loadData runs again when the URL has
\* another query
FrontendCommit(f) ==
    /\ selectedMonths' = f.selectedMonths
    /\ selectedHours' = f.selectedHours
    /\ selectedCells' = f.selectedCells
    /\ objects' = Reached(f).objects
    /\ occupancyData' = Reached(f).occupancyData
    /\ occupancyError' = f.occupancyError
    /\ requests' = Reached(f).requests
    /\ issued' = f.issued
    /\ retried' = f.retried
    /\ searchParams' = f.searchParams
    /\ pc' = IF SameQuery(f.searchParams, searchParams) THEN "ready"
             ELSE "start"

\* the queries the frontend is opened with
FrontendQueries ==
    { <<>>, [months |-> <<"2">>, hours |-> <<"6">>, cell_id |-> <<"1">>] }

\* the boxes clicked in the frontend: February, and 6 o'clock
FrontendMonths == {1}

FrontendHours == {6}

InitFrontend ==
    /\ pc = "start"
    /\ error = None
    /\ epsilons = <<>>
    /\ NoDataframes
    /\ NoMatrices
    /\ NoLikelihoodCall
    /\ support = <<>>
    /\ mixtures_df = EmptyDf
    /\ meta_data = {}
    /\ context_df = EmptyDf
    /\ model_actuals_df = EmptyDf
    /\ reference_model_actuals_df = EmptyDf
    /\ selections_actuals_df = {}
    /\ existing_dir = NoDirectory
    /\ report_dir = NoDirectory
    /\ cell_ids = <<>>
    /\ cell = 0
    /\ timeline = <<>>
    /\ occupancy_df = <<>>
    /\ partials = {}
    /\ geometries = <<0, 1>>
    /\ cell_depths = (0 :> 10 @@ 1 :> 20)
    /\ minimumsRaw =
           Obj([c \in {0, 1} |->
                   CellMinimums(cell_depths[c],
                       [m \in {1} |-> DayArray(6, Rat(1, 4), Rat(1, 2))])])
    /\ timestamps = SessionTimeline
    /\ searchParams \in FrontendQueries
    /\ minimums = null
    /\ selectedMonths = DEFAULT_MONTHS
    /\ selectedHours = DEFAULT_HOURS
    /\ selectedCells = <<>>
    /\ filtered_minimums = <<>>
    /\ occupancy_data = <<>>
    /\ requests = {}
    /\ issued = 0
    /\ loadError = null
    /\ isLoadingOccupancy = FALSE
    /\ objects = << <<>> >>
    /\ occupancyData = 1
    /\ occupancyError = null
    /\ retried = null
    /\ filtered_timestamps = <<>>
    /\ highlight_indices = <<>>
    /\ url_timer = null
    /\ globalLoads = 0
    /\ events = 0

frontendFrame ==
    <<error, engineVars, reportInputs, report_dir, cell_ids, cell, timeline,
      occupancy_df, cell_depths, geometries, minimumsRaw, timestamps,
      filtered_minimums, occupancy_data, loadError, isLoadingOccupancy,
      filtered_timestamps, highlight_indices, url_timer, partials>>

\* loadData of the frontend has its answer: the global data is set, the
\* months and hours of the URL when it has them, and the cell of the URL or
\* the first of the cell depths; the effects follow
FrontendLoaded ==
    /\ pc = "start"
    /\ minimums' = loadGlobalData(minimumsRaw, cell_depths)
    /\ globalLoads' = globalLoads + 1
    /\ LET urlParams == frontendParseUrlParams(searchParams)
           initialCellId ==
               IF urlParams.cell_id # null THEN urlParams.cell_id
               ELSE Str(String(FirstKey(DOMAIN cell_depths)))
           set == [Frontend EXCEPT
                     !.selectedMonths = IF urlParams.months # null
                                        THEN urlParams.months.items ELSE @,
                     !.selectedHours = IF urlParams.hours # null
                                       THEN urlParams.hours.items ELSE @,
                     !.selectedCells = <<initialCellId>>]
           changed == {"cellDepths", "selectedCells"}
                         \cup (IF urlParams.months # null
                               THEN {"selectedMonths"} ELSE {})
                         \cup (IF urlParams.hours # null
                               THEN {"selectedHours"} ELSE {})
       IN  FrontendCommit(FrontendEffects(set, cell_depths, changed))
    /\ UNCHANGED <<frontendFrame, events>>

\* a box of the MonthPicker of the frontend is clicked
FrontendClickMonth ==
    /\ pc = "ready"
    /\ events < MaxClicks
    /\ \E index \in FrontendMonths :
          FrontendCommit(FrontendEffects(
              [Frontend EXCEPT !.selectedMonths =
                                   MonthPickerClick(selectedMonths, index)],
              cell_depths, {"selectedMonths"}))
    /\ events' = events + 1
    /\ UNCHANGED <<frontendFrame, minimums, globalLoads>>

\* a box of the HourPicker of the frontend is clicked
FrontendClickHour ==
    /\ pc = "ready"
    /\ events < MaxClicks
    /\ \E index \in FrontendHours :
          FrontendCommit(FrontendEffects(
              [Frontend EXCEPT !.selectedHours =
                                   HourPickerClick(selectedHours, index)],
              cell_depths, {"selectedHours"}))
    /\ events' = events + 1
    /\ UNCHANGED <<frontendFrame, minimums, globalLoads>>

\* a cell of the CellMap of the frontend is clicked: the cell id is the
\* number of the feature
FrontendClickCell ==
    /\ pc = "ready"
    /\ events < MaxClicks
    /\ \E k \in 1..Len(geometries) :
          LET picked == handleCellClick(selectedCells,
                                        Num(Rat(geometries[k], 1)))
          IN  FrontendCommit(FrontendEffects(
                  [Frontend EXCEPT
                     !.selectedCells = picked,
                     !.retried = IF picked # selectedCells THEN null ELSE @],
                  cell_depths, {"selectedCells"}))
    /\ events' = events + 1
    /\ UNCHANGED <<frontendFrame, minimums, globalLoads>>

\* a request of the frontend has its answer: loadOccupancy stores it in the
\* object it was given, and loadCellOccupancy sets a copy of that object
FrontendOccupancyLoaded ==
    /\ globalLoads > 0
    /\ \E request \in requests :
          LET stored == Answered([request EXCEPT
                                     !.into = objects[request.into]])
              after == Reached([Frontend EXCEPT
                           !.objects = Append([objects EXCEPT
                                                  ![request.into] = stored],
                                              stored),
                           !.occupancyData = Len(objects) + 1,
                           !.requests = requests \ {request}])
          IN  /\ objects' = after.objects
              /\ occupancyData' = after.occupancyData
              /\ requests' = after.requests
              /\ retried' = IF retried # null /\ retried.chars = request.cellId
                            THEN null ELSE retried
    /\ occupancyError' = null
    /\ UNCHANGED <<frontendFrame, pc, minimums, globalLoads, events,
                   searchParams, selectedMonths, selectedHours, selectedCells,
                   issued>>

\* a request of the frontend fails
FrontendOccupancyFailed ==
    /\ globalLoads > 0
    /\ \E request \in requests :
          LET after == Reached([Frontend EXCEPT
                                   !.requests = requests \ {request}])
          IN  /\ objects' = after.objects
              /\ occupancyData' = after.occupancyData
              /\ requests' = after.requests
              /\ occupancyError' = Str(request.cellId)
    /\ UNCHANGED <<frontendFrame, pc, minimums, globalLoads, events,
                   searchParams, selectedMonths, selectedHours, selectedCells,
                   issued, retried>>

\* Retry of the popup of the occupancy error: the error and the occupancy
\* data are cleared; no dependency of an effect is set
handleRetryOccupancy ==
    /\ pc = "ready"
    /\ occupancyError # null
    /\ occupancyError' = null
    /\ LET after == Reached([Frontend EXCEPT
                                !.objects = Append(objects, <<>>),
                                !.occupancyData = Len(objects) + 1])
       IN  /\ objects' = after.objects
           /\ occupancyData' = after.occupancyData
           /\ requests' = after.requests
    /\ retried' = IF Len(selectedCells) > 0
                  THEN Str(TemplateString(selectedCells[1])) ELSE retried
    /\ UNCHANGED <<frontendFrame, pc, minimums, globalLoads, searchParams,
                   selectedMonths, selectedHours, selectedCells, issued,
                   events>>

NextFrontend ==
    \/ FrontendLoaded
    \/ FrontendClickMonth
    \/ FrontendClickHour
    \/ FrontendClickCell
    \/ FrontendOccupancyLoaded
    \/ FrontendOccupancyFailed
    \/ handleRetryOccupancy

SpecFrontend == InitFrontend /\ [][NextFrontend]_vars

\* C23 as stated: once the global data has loaded, the update of the URL
\* that follows a change of the selected months, hours or cell changes the
\* parameters of the URL only: the global data is never loaded again (and
\* so the selections are not set again from the URL).
C23_NoSecondLoad == [][globalLoads > 0 => globalLoads' = globalLoads]_vars

\* C22: loadOccupancy for a cell the object it is given holds sends no
\* request and leaves the object as it is; for another cell it adds the
\* entry of that cell, the answer of the request, and changes no other
\* entry.
C22_LoadOccupancyFrame ==
    [][/\ \A r \in requests' \ requests :
             r.cellId \notin DOMAIN objects[r.into]
       /\ \A o \in Live(occupancyData', requests') \cap (1..Len(objects)) :
             \A key \in DOMAIN objects[o] \cup DOMAIN objects'[o] :
                \/ /\ key \in DOMAIN objects[o]
                   /\ key \in DOMAIN objects'[o]
                   /\ objects'[o][key] = objects[o][key]
                \/ \E r \in requests \ requests' :
                      /\ r.into = o
                      /\ r.cellId = key
                      /\ key \in DOMAIN objects'[o]
                      /\ objects'[o][key]
                            = OccupancyServed(key, r.depth_bin)]_vars

\* both cells were asked for once and have their answers, and the cell
\* selected was loaded when loadData ran again: nothing was asked then
C22_Witness ==
    /\ globalLoads >= 2
    /\ issued = 2
    /\ requests = {}
    /\ DOMAIN objects[occupancyData] = { <<"0">>, <<"1">> }

\* a request that waits has its answer, or fails
SpecFrontendFair ==
    SpecFrontend /\ WF_vars(FrontendOccupancyLoaded \/ FrontendOccupancyFailed)

\* C30 as stated: after the load of the occupancy of the selected cell has
\* failed, activating Retry eventually has a new request for that cell
\* sent, as long as the cell stays selected.
C30_RetryAsksAgain == (retried # null) ~> (retried = null)

====
